---- MODULE Spec2Model ----
(***************************************************************************)
(* Sites & Expenses page (src/src/lib/middleware/checkRole.ts): the        *)
(* component state the balance computation reads, the state updates that   *)
(* change it, and calculateSiteFinancials.                                 *)
(*                                                                         *)
(* Records keep the properties calculateSiteFinancials and the properties  *)
(* below read: an expense and a funds-received record their amount, an     *)
(* advance its purpose and amount, an invoice its netAmount, approverType  *)
(* and paymentStatus, a site its id.  Amounts are integers.                *)
(*                                                                         *)
(* Further parts: the checkRole middleware, the increment_funds endpoint   *)
(* (src/supabase/functions/increment_funds/index.ts), and the handlers of  *)
(* the Sites page, of the Invoices page (src/src/pages/Invoices.tsx) and   *)
(* of the advance form (src/src/components/advances/AdvanceForm.tsx) with  *)
(* the backend requests they await.  Each part has a specification of its  *)
(* own over the same variables; a part at rest keeps its variables at      *)
(* their idle values.                                                      *)
(***************************************************************************)
EXTENDS Integers, Sequences, FiniteSets, TLC

VARIABLES sites, expenses, advances, fundsReceived, invoices, call

\* The role gate: the request the middleware is run on and what it did.
VARIABLES mw

gateVars == <<mw>>

\* The backend table sites, and the handlers and endpoint invocations in
\* flight (one per slot).
VARIABLES dbSites, ops

backendVars == <<dbSites, ops>>

\* The rest of the pages' state and of the backend: the site the Sites page has
\* selected, the invoices list of the Invoices page, isSubmitting of the
\* advance form, and the rows of the other tables.
VARIABLES selectedSiteId, invoicesPage, isSubmitting, dbRows

pageVars == <<selectedSiteId, invoicesPage, isSubmitting, dbRows>>

\* The session of the Sites page: the signed-in user (user of useAuth()), the
\* supervisor whose sites are shown, the state handed over by the navigation, whether the
\* sites were fetched, whether the page shows its spinner, and the fetches of
\* the page that are in flight.
VARIABLES authUser, selectedSupervisorId, locationState, hasFetchedData, isLoading, fetches

sessionVars ==
  <<authUser, selectedSupervisorId, locationState, hasFetchedData, isLoading, fetches>>

vars == <<sites, expenses, advances, fundsReceived, invoices, call, mw, dbSites, ops, selectedSiteId, invoicesPage, isSubmitting, dbRows, authUser, selectedSupervisorId, locationState, hasFetchedData, isLoading, fetches>>

\* No request has reached the role gate.
NoRequest ==
  [pc |-> "idle", user |-> "none", allowedRoles |-> <<>>,
   status |-> 0, body |-> "none", sends |-> 0, nextCalls |-> 0]

GateIdle == mw = NoRequest

(***************************************************************************)
(* Bounds of the model.                                                    *)
(***************************************************************************)
\* Records held in the four lists together.
MaxRecords == 2
\* Largest amount of a record.
MaxAmount == 2

Amounts == 1..MaxAmount

(***************************************************************************)
(* Values.                                                                 *)
(***************************************************************************)
\* Site ids known to the backend, and the ids calculateSiteFinancials is
\* called with: a site id, the empty string, an id no site has.
SiteIds == {"s1", "s2"}
SiteIdArgs == SiteIds \cup {"", "s9"}

\* The members of the AdvancePurpose enumeration.
AdvancePurpose == {"ADVANCE", "SAFETY_SHOES", "TOOLS", "OTHER"}
\* A purpose value the enumeration does not have yet.
FuturePurpose == "FUTURE"
PurposeValues == AdvancePurpose \cup {FuturePurpose}

DEBIT_ADVANCE_PURPOSES == {"SAFETY_SHOES", "TOOLS", "OTHER"}

\* Who pays an invoice, and its payment status.
ApproverTypes == {"ho", "supervisor"}
PaymentStatuses == {"pending", "paid"}

\* The value of a property an object does not have.
undefined == "undefined"

\* obj.key
Prop(obj, key) == IF key \in DOMAIN obj THEN obj[key] ELSE undefined

(***************************************************************************)
(* The backend and the operations in flight                                *)
(***************************************************************************)
\* A column that holds a number or null: <<>> is null, <<n>> the number n.
null == <<>>

\* value || 0
OrZero(value) == IF value = null THEN 0 ELSE value[1]

\* A row of table sites; a site id without a row has present = FALSE.
NoRow ==
  [present |-> FALSE, funds |-> null, is_completed |-> FALSE, completion_date |-> "",
   supervisor_id |-> ""]

\* Table sites without rows.
NoSites == [s \in SiteIds |-> NoRow]

\* The slots in which a handler or an endpoint invocation runs.
Slots == {1, 2}

\* A slot in which nothing runs.
IdleOp ==
  [handler |-> "none", pc |-> "idle", method |-> "none", parsed |-> FALSE,
   siteId |-> "", amount |-> null, cur |-> 0,
   status |-> 0, body |-> "none", prev |-> 0, new |-> 0,
   reqs |-> <<>>, outs |-> <<>>, failed |-> {},
   purpose |-> "none", toast |-> "none", closure |-> <<>>, pending |-> {},
   before |-> <<>>, error |-> [code |-> "", message |-> <<>>], message |-> <<>>,
   date |-> "", calls |-> <<>>, supervisorId |-> "", refetch |-> {}]

BackendIdle ==
  /\ dbSites = NoSites
  /\ ops = [o \in Slots |-> IdleOp]

\* Tables expenses, advances and funds_received without rows, no invoice paid.
NoRows ==
  [expenses |-> <<>>, advances |-> <<>>, funds_received |-> <<>>, invoices |-> <<>>,
   paid |-> {}]

\* Nobody signed in, no navigation state, nothing fetched or being fetched.
NoUser == [id |-> "", role |-> "none"]

SessionIdle ==
  /\ authUser = NoUser
  /\ selectedSupervisorId = ""
  /\ locationState = null
  /\ hasFetchedData = FALSE
  /\ isLoading = FALSE
  /\ fetches = {}

\* No site selected, the Invoices page and the advance form not in use.
PageIdle ==
  /\ selectedSiteId = ""
  /\ invoicesPage = <<>>
  /\ isSubmitting = FALSE
  /\ dbRows = NoRows

(***************************************************************************)
(* calculateSiteFinancials                                                 *)
(***************************************************************************)
\* list.reduce((sum, x) => sum + x.amount, acc), left to right
RECURSIVE reduceAmount(_, _)
reduceAmount(list, acc) ==
  IF list = <<>> THEN acc
  ELSE reduceAmount(Tail(list), acc + Head(list).amount)

\* invoices.reduce((sum, invoice) => sum + invoice.netAmount, acc)
RECURSIVE reduceNetAmount(_, _)
reduceNetAmount(list, acc) ==
  IF list = <<>> THEN acc
  ELSE reduceNetAmount(Tail(list), acc + Head(list).netAmount)

\* What sites.find returns when no site matches (undefined, where a site
\* object is expected).
noSite == [undefined |-> TRUE]

\* sites.find(s => s.id === siteId): the first such site, or undefined
RECURSIVE find(_, _)
find(list, siteId) ==
  IF list = <<>> THEN noSite
  ELSE IF Head(list).id = siteId THEN Head(list)
  ELSE find(Tail(list), siteId)

\* a reduce whose callback returns the amount instead of adding it to the sum
totalExpensesOf_last(exps) == IF exps = <<>> THEN 0 ELSE exps[Len(exps)].amount
totalExpensesOf(exps) == reduceAmount(exps, 0)

totalFundsOf_seed(funds) == reduceAmount(funds, 1)
totalFundsOf(funds) == reduceAmount(funds, 0)

\* advances.reduce: an advance is added unless its purpose is a debit purpose
RECURSIVE reduceAdvances(_, _)
reduceAdvances(list, acc) ==
  IF list = <<>> THEN acc
  ELSE reduceAdvances(Tail(list),
         IF Head(list).purpose \notin DEBIT_ADVANCE_PURPOSES
           THEN acc + Head(list).amount
           ELSE acc)

\* the same reduce with the cash purposes listed instead of the debit ones
RECURSIVE reduceAdvances_allow(_, _)
reduceAdvances_allow(list, acc) ==
  IF list = <<>> THEN acc
  ELSE reduceAdvances_allow(Tail(list),
         IF Head(list).purpose = "ADVANCE"
           THEN acc + Head(list).amount
           ELSE acc)

totalAdvancesOf_allow(advs) == reduceAdvances_allow(advs, 0)
totalAdvancesOf(advs) == reduceAdvances(advs, 0)

\* advances.reduce: an advance is added when its purpose is a debit purpose
RECURSIVE reduceDebits(_, _)
reduceDebits(list, acc) ==
  IF list = <<>> THEN acc
  ELSE reduceDebits(Tail(list),
         IF Head(list).purpose \in DEBIT_ADVANCE_PURPOSES
           THEN acc + Head(list).amount
           ELSE acc)

\* the same reduce with OTHER missing from the purposes it tests
RECURSIVE reduceDebits_short(_, _)
reduceDebits_short(list, acc) ==
  IF list = <<>> THEN acc
  ELSE reduceDebits_short(Tail(list),
         IF Head(list).purpose \in {"SAFETY_SHOES", "TOOLS"}
           THEN acc + Head(list).amount
           ELSE acc)

totalDebitToWorkerOf_short(advs) == reduceDebits_short(advs, 0)
totalDebitToWorkerOf(advs) == reduceDebits(advs, 0)

\* invoices.filter(invoice => invoice.payment_by === 'supervisor')
\*         .reduce((sum, invoice) => sum + invoice.netAmount, 0)
supervisorInvoiceTotalOf_all(invs) == reduceNetAmount(invs, 0)
supervisorInvoiceTotalOf(invs) ==
  reduceNetAmount(
    SelectSeq(invs, LAMBDA invoice : Prop(invoice, "payment_by") = "supervisor"),
    0)

\* The summary returned for a site that was found.
SummaryOf_noAdvances(totalFunds, totalExpenses, totalAdvances, totalDebitToWorker, supervisorInvoiceTotal) ==
  [fundsReceived    |-> totalFunds,
   totalExpenditure |-> totalExpenses,
   totalAdvances    |-> totalAdvances,
   debitsToWorker   |-> totalDebitToWorker,
   invoicesPaid     |-> supervisorInvoiceTotal,
   pendingInvoices  |-> 0,
   totalBalance     |-> totalFunds - totalExpenses - supervisorInvoiceTotal]

SummaryOf_debits(totalFunds, totalExpenses, totalAdvances, totalDebitToWorker, supervisorInvoiceTotal) ==
  [fundsReceived    |-> totalFunds,
   totalExpenditure |-> totalExpenses,
   totalAdvances    |-> totalAdvances,
   debitsToWorker   |-> totalDebitToWorker,
   invoicesPaid     |-> supervisorInvoiceTotal,
   pendingInvoices  |-> 0,
   totalBalance     |-> totalFunds - totalExpenses - totalAdvances
                          - totalDebitToWorker - supervisorInvoiceTotal]

SummaryOf_noPending(totalFunds, totalExpenses, totalAdvances, totalDebitToWorker, supervisorInvoiceTotal) ==
  [fundsReceived    |-> totalFunds,
   totalExpenditure |-> totalExpenses,
   totalAdvances    |-> totalAdvances,
   debitsToWorker   |-> totalDebitToWorker,
   invoicesPaid     |-> supervisorInvoiceTotal,
   totalBalance     |-> totalFunds - totalExpenses - totalAdvances
                          - supervisorInvoiceTotal]

SummaryOf(totalFunds, totalExpenses, totalAdvances, totalDebitToWorker, supervisorInvoiceTotal) ==
  [fundsReceived    |-> totalFunds,
   totalExpenditure |-> totalExpenses,
   totalAdvances    |-> totalAdvances,
   debitsToWorker   |-> totalDebitToWorker,
   invoicesPaid     |-> supervisorInvoiceTotal,
   pendingInvoices  |-> 0,
   totalBalance     |-> totalFunds - totalExpenses - totalAdvances
                          - supervisorInvoiceTotal]

\* The summary returned when the site id is empty or no site has it.
ZeroSummary ==
  [fundsReceived    |-> 0,
   totalExpenditure |-> 0,
   totalAdvances    |-> 0,
   debitsToWorker   |-> 0,
   invoicesPaid     |-> 0,
   pendingInvoices  |-> 0,
   totalBalance     |-> 0]

\* calculateSiteFinancials without the test that the site was found
calculateSiteFinancials_noFind(sts, exps, advs, funds, invs, siteId) ==
  IF siteId # ""
    THEN SummaryOf(totalFundsOf(funds), totalExpensesOf(exps),
                   totalAdvancesOf(advs), totalDebitToWorkerOf(advs),
                   supervisorInvoiceTotalOf(invs))
    ELSE ZeroSummary

\* calculateSiteFinancials(siteId), a closure over the component's sites,
\* expenses, advances, fundsReceived and invoices.
calculateSiteFinancials(sts, exps, advs, funds, invs, siteId) ==
  IF siteId # "" /\ find(sts, siteId) # noSite
    THEN SummaryOf(totalFundsOf(funds), totalExpensesOf(exps),
                   totalAdvancesOf(advs), totalDebitToWorkerOf(advs),
                   supervisorInvoiceTotalOf(invs))
    ELSE ZeroSummary

(***************************************************************************)
(* State                                                                   *)
(***************************************************************************)
\* No call of calculateSiteFinancials has returned for the present lists.
NoCall == [done |-> FALSE, siteId |-> "", summary |-> ZeroSummary]

Init ==
  /\ sites = <<>>
  /\ expenses = <<>>
  /\ advances = <<>>
  /\ fundsReceived = <<>>
  /\ invoices = <<>>
  /\ call = NoCall
  /\ GateIdle
  /\ BackendIdle
  /\ PageIdle
  /\ SessionIdle

TotalRecords == Len(expenses) + Len(advances) + Len(fundsReceived) + Len(invoices)

(***************************************************************************)
(* State updates                                                           *)
(***************************************************************************)
\* fetchSites: setSites(transformedSites), the rows the query returned.
setSitesFetched(rows) ==
  /\ sites' = rows
  /\ call' = NoCall
  /\ UNCHANGED <<expenses, advances, fundsReceived, invoices>>

\* handleAddSite: setSites(prevSites => [...prevSites, newSiteData])
appendSite(id) ==
  /\ sites' = Append(sites, [id |-> id])
  /\ call' = NoCall
  /\ UNCHANGED <<expenses, advances, fundsReceived, invoices>>

\* handleAddExpense: setExpenses(prevExpenses => [expenseWithId, ...prevExpenses])
prependExpense(amount) ==
  /\ expenses' = <<[amount |-> amount]>> \o expenses
  /\ call' = NoCall
  /\ UNCHANGED <<sites, advances, fundsReceived, invoices>>

\* handleAddAdvance: setAdvances(prevAdvances => [advanceWithId, ...prevAdvances])
prependAdvance(purpose, amount) ==
  /\ advances' = <<[purpose |-> purpose, amount |-> amount]>> \o advances
  /\ call' = NoCall
  /\ UNCHANGED <<sites, expenses, fundsReceived, invoices>>

\* handleAddFunds: setFundsReceived(prevFunds => [fundWithId, ...prevFunds])
prependFund(amount) ==
  /\ fundsReceived' = <<[amount |-> amount]>> \o fundsReceived
  /\ call' = NoCall
  /\ UNCHANGED <<sites, expenses, advances, invoices>>

\* handleAddInvoice(newInvoice): the invoice is kept as it was given.
handleAddInvoice(newInvoice) ==
  /\ invoices' = <<newInvoice>> \o invoices
  /\ call' = NoCall
  /\ UNCHANGED <<sites, expenses, advances, fundsReceived>>

\* fetchSiteExpenses, no data or an error: setExpenses([])
clearExpenses ==
  /\ expenses # <<>>
  /\ expenses' = <<>>
  /\ call' = NoCall
  /\ UNCHANGED <<sites, advances, fundsReceived, invoices>>

\* fetchSiteAdvances, no data or an error: setAdvances([])
clearAdvances ==
  /\ advances # <<>>
  /\ advances' = <<>>
  /\ call' = NoCall
  /\ UNCHANGED <<sites, expenses, fundsReceived, invoices>>

\* fetchSiteFundsReceived, no data or an error: setFundsReceived([])
clearFundsReceived ==
  /\ fundsReceived # <<>>
  /\ fundsReceived' = <<>>
  /\ call' = NoCall
  /\ UNCHANGED <<sites, expenses, advances, invoices>>

\* fetchSiteInvoices(siteId): setInvoices([]) and return.
fetchSiteInvoices ==
  /\ invoices # <<>>
  /\ invoices' = <<>>
  /\ call' = NoCall
  /\ UNCHANGED <<sites, expenses, advances, fundsReceived>>

\* the update of another list while the summary is computed
Calculate_clearing(siteId) ==
  /\ call' = [done    |-> TRUE,
              siteId  |-> siteId,
              summary |-> calculateSiteFinancials(sites, expenses, advances,
                                                  fundsReceived, invoices, siteId)]
  /\ expenses' = <<>>
  /\ UNCHANGED <<sites, advances, fundsReceived, invoices>>

\* A call calculateSiteFinancials(siteId) returns its summary.
Calculate(siteId) ==
  /\ call' = [done    |-> TRUE,
              siteId  |-> siteId,
              summary |-> calculateSiteFinancials(sites, expenses, advances,
                                                  fundsReceived, invoices, siteId)]
  /\ UNCHANGED <<sites, expenses, advances, fundsReceived, invoices>>

\* The lists of sites a query can return: site ids are unique.
SiteRows ==
  {<<>>} \cup {<<[id |-> a]>> : a \in SiteIds}
         \cup {<<[id |-> p[1]], [id |-> p[2]]>> :
                 p \in {q \in SiteIds \X SiteIds : q[1] # q[2]}}

\* The invoices the invoice form can hand to handleAddInvoice.
InvoiceInputs ==
  [netAmount : Amounts, approverType : ApproverTypes, paymentStatus : PaymentStatuses]

\* The variables the balance computation and its state updates leave alone.
OutsideBalance == UNCHANGED <<gateVars, sessionVars, backendVars, pageVars>>

Next ==
  \/ /\ \E rows \in SiteRows : setSitesFetched(rows)
     /\ OutsideBalance
  \/ /\ \E id \in SiteIds :
          /\ find(sites, id) = noSite
          /\ appendSite(id)
     /\ OutsideBalance
  \/ /\ TotalRecords < MaxRecords
     /\ \E a \in Amounts : prependExpense(a)
     /\ OutsideBalance
  \/ /\ TotalRecords < MaxRecords
     /\ \E p \in PurposeValues, a \in Amounts : prependAdvance(p, a)
     /\ OutsideBalance
  \/ /\ TotalRecords < MaxRecords
     /\ \E a \in Amounts : prependFund(a)
     /\ OutsideBalance
  \/ /\ TotalRecords < MaxRecords
     /\ \E inv \in InvoiceInputs : handleAddInvoice(inv)
     /\ OutsideBalance
  \/ clearExpenses /\ OutsideBalance
  \/ clearAdvances /\ OutsideBalance
  \/ clearFundsReceived /\ OutsideBalance
  \/ fetchSiteInvoices /\ OutsideBalance
  \/ /\ \E id \in SiteIdArgs : Calculate(id)
     /\ OutsideBalance

Spec == Init /\ [][Next]_vars

(***************************************************************************)
(* The scenario of one site with one funds-received record, two expenses,  *)
(* two advances and one supervisor-paid invoice: the records are added by  *)
(* the same state updates, in any order, each once.                        *)
(***************************************************************************)
ScenarioFunds == {10000}
ScenarioExpenses == {2000, 500}
ScenarioAdvances ==
  {[purpose |-> "ADVANCE", amount |-> 1000], [purpose |-> "TOOLS", amount |-> 300]}
ScenarioInvoices ==
  {[netAmount |-> 1500, approverType |-> "supervisor", paymentStatus |-> st] :
     st \in PaymentStatuses}

Range(list) == {list[i] : i \in 1..Len(list)}

InitScenario ==
  /\ sites = <<[id |-> "s1"]>>
  /\ expenses = <<>>
  /\ advances = <<>>
  /\ fundsReceived = <<>>
  /\ invoices = <<>>
  /\ call = NoCall
  /\ GateIdle
  /\ BackendIdle
  /\ PageIdle
  /\ SessionIdle

NextScenario ==
  \/ /\ \E a \in ScenarioFunds :
          /\ fundsReceived = <<>>
          /\ prependFund(a)
     /\ OutsideBalance
  \/ /\ \E a \in ScenarioExpenses :
          /\ [amount |-> a] \notin Range(expenses)
          /\ prependExpense(a)
     /\ OutsideBalance
  \/ /\ \E adv \in ScenarioAdvances :
          /\ adv \notin Range(advances)
          /\ prependAdvance(adv.purpose, adv.amount)
     /\ OutsideBalance
  \/ /\ \E inv \in ScenarioInvoices :
          /\ invoices = <<>>
          /\ handleAddInvoice(inv)
     /\ OutsideBalance
  \/ /\ \E id \in SiteIdArgs : Calculate(id)
     /\ OutsideBalance

SpecScenario == InitScenario /\ [][NextScenario]_vars

(***************************************************************************)
(* Properties of calculateSiteFinancials                                   *)
(***************************************************************************)
\* The sum of val(x) over the records x of a list.
SumOver(list, val(_)) ==
  LET f[i \in 0..Len(list)] == IF i = 0 THEN 0 ELSE f[i - 1] + val(list[i])
  IN  f[Len(list)]

\* The list without its i-th record.
RemoveAt(list, i) == SubSeq(list, 1, i - 1) \o SubSeq(list, i + 1, Len(list))

\* The site list holds a site with this id.
Found(siteId) == \E i \in 1..Len(sites) : sites[i].id = siteId

\* The last call returned the summary of a site that is in the site list.
CalledFound == call.done /\ Found(call.siteId)

\* The fields of a summary.
SummaryFields ==
  {"fundsReceived", "totalExpenditure", "totalAdvances", "debitsToWorker",
   "invoicesPaid", "pendingInvoices", "totalBalance"}

AllZero(summary) ==
  \A f \in SummaryFields : f \in DOMAIN summary /\ summary[f] = 0

\* The debit purposes, as the specification lists them.
DebitPurposes == {"SAFETY_SHOES", "TOOLS", "OTHER"}

\* What calculateSiteFinancials returns for the site of the last call when
\* the advances, or the invoices, are replaced by another list.
WithAdvances(advs) ==
  calculateSiteFinancials(sites, expenses, advs, fundsReceived, invoices, call.siteId)
WithInvoices(invs) ==
  calculateSiteFinancials(sites, expenses, advances, fundsReceived, invs, call.siteId)

\* C1: for a site in the site list, totalBalance is fundsReceived -
\* totalExpenditure - totalAdvances - invoicesPaid, fundsReceived is the sum
\* of the amounts of the funds-received records and totalExpenditure the sum
\* of the amounts of the expense records.
C1_BalanceIdentity ==
  CalledFound =>
    LET s == call.summary IN
      /\ s.totalBalance =
           s.fundsReceived - s.totalExpenditure - s.totalAdvances - s.invoicesPaid
      /\ s.fundsReceived = SumOver(fundsReceived, LAMBDA r : r.amount)
      /\ s.totalExpenditure = SumOver(expenses, LAMBDA r : r.amount)

\* C1 witness: a summary of a found site with funds received and an advance
\* that is subtracted.
C1_Witness ==
  /\ CalledFound
  /\ call.summary.fundsReceived > 0
  /\ call.summary.totalAdvances > 0

\* C2: for a site in the site list, totalAdvances + debitsToWorker is the
\* sum of the amounts of all advances.
C2_PartitionComplete ==
  CalledFound =>
    call.summary.totalAdvances + call.summary.debitsToWorker
      = SumOver(advances, LAMBDA r : r.amount)

\* C2 witness: a summary with an advance in each of the two buckets, one of
\* them of purpose OTHER.
C2_Witness ==
  /\ CalledFound
  /\ call.summary.totalAdvances > 0
  /\ \E i \in 1..Len(advances) : advances[i].purpose = "OTHER"

\* C3: for a site in the site list, invoicesPaid is the sum of netAmount over
\* the invoices of the list that are paid by the supervisor.
C3_InvoicesPaidIsSupervisorSum ==
  CalledFound =>
    call.summary.invoicesPaid
      = SumOver(SelectSeq(invoices, LAMBDA inv : inv.approverType = "supervisor"),
                LAMBDA inv : inv.netAmount)

\* C4: an invoice paid by head office does not contribute to invoicesPaid or
\* totalBalance: adding one, removing one or changing its netAmount leaves
\* both fields as they are.
C4_HoInvoicesDoNotCount ==
  call.done =>
    LET Same(invs) ==
          /\ WithInvoices(invs).invoicesPaid = call.summary.invoicesPaid
          /\ WithInvoices(invs).totalBalance = call.summary.totalBalance
    IN  /\ \A inv \in InvoiceInputs :
             inv.approverType = "ho" =>
               /\ Same(<<inv>> \o invoices)
               /\ Same(Append(invoices, inv))
        /\ \A i \in 1..Len(invoices) :
             invoices[i].approverType = "ho" =>
               /\ Same(RemoveAt(invoices, i))
               /\ \A a \in Amounts : Same([invoices EXCEPT ![i].netAmount = a])

\* C4 witness: a summary of a found site whose invoices hold one paid by
\* head office.
C4_Witness ==
  /\ CalledFound
  /\ \E i \in 1..Len(invoices) : invoices[i].approverType = "ho"

\* C5: for a site in the site list, adding, removing or changing the amount
\* of an advance with a debit purpose changes debitsToWorker by that amount
\* and leaves totalBalance and totalAdvances as they are.
C5_DebitsDoNotSubtract ==
  CalledFound =>
    LET Moves(advs, delta) ==
          /\ WithAdvances(advs).debitsToWorker = call.summary.debitsToWorker + delta
          /\ WithAdvances(advs).totalBalance = call.summary.totalBalance
          /\ WithAdvances(advs).totalAdvances = call.summary.totalAdvances
    IN  /\ \A p \in DebitPurposes, a \in Amounts :
             /\ Moves(<<[purpose |-> p, amount |-> a]>> \o advances, a)
             /\ Moves(Append(advances, [purpose |-> p, amount |-> a]), a)
        /\ \A i \in 1..Len(advances) :
             advances[i].purpose \in DebitPurposes =>
               /\ Moves(RemoveAt(advances, i), 0 - advances[i].amount)
               /\ \A a \in Amounts :
                    Moves([advances EXCEPT ![i].amount = a], a - advances[i].amount)

\* C5 witness: a summary of a found site with a debit advance and funds
\* received.
C5_Witness ==
  /\ CalledFound
  /\ call.summary.debitsToWorker > 0
  /\ call.summary.fundsReceived > 0

\* C6: with the four lists empty, the summary of a site in the site list has
\* every field equal to 0.
C6_EmptyIsAllZero ==
  ( /\ CalledFound
    /\ expenses = <<>> /\ advances = <<>>
    /\ fundsReceived = <<>> /\ invoices = <<>> )
  => AllZero(call.summary)

\* C6 witness: a call for a found site with the four lists empty.
C6_Witness ==
  /\ CalledFound
  /\ expenses = <<>> /\ advances = <<>>
  /\ fundsReceived = <<>> /\ invoices = <<>>

\* C7: a call with a site id that is empty or that no site of the list has
\* returns the all-zero summary, whatever the four lists hold.
C7_UnknownSiteIsAllZero ==
  (call.done /\ ~Found(call.siteId)) => AllZero(call.summary)

\* C7 witness: a call with a non-empty id no site has, the site list and
\* the lists of expenses and funds received not empty.
C7_Witness ==
  /\ call.done
  /\ call.siteId # ""
  /\ ~Found(call.siteId)
  /\ sites # <<>>
  /\ expenses # <<>>
  /\ fundsReceived # <<>>

\* The lists of the scenario are loaded.
ScenarioLoaded ==
  /\ fundsReceived = <<[amount |-> 10000]>>
  /\ expenses = <<[amount |-> 2000], [amount |-> 500]>>
  /\ advances = <<[purpose |-> "ADVANCE", amount |-> 1000],
                  [purpose |-> "TOOLS", amount |-> 300]>>
  /\ Len(invoices) = 1
  /\ invoices[1].netAmount = 1500
  /\ invoices[1].approverType = "supervisor"

\* C8: for the found site of the scenario the summary is fundsReceived 10000,
\* totalExpenditure 2500, totalAdvances 1000, debitsToWorker 300,
\* invoicesPaid 1500, totalBalance 5000.
C8_Scenario ==
  (ScenarioLoaded /\ CalledFound) =>
    /\ call.summary.fundsReceived = 10000
    /\ call.summary.totalExpenditure = 2500
    /\ call.summary.totalAdvances = 1000
    /\ call.summary.debitsToWorker = 300
    /\ call.summary.invoicesPaid = 1500
    /\ call.summary.totalBalance = 5000

\* C9: an advance whose purpose is outside the debit purposes, a value the
\* enumeration does not have included, is counted in totalAdvances and
\* subtracted from totalBalance and is not counted in debitsToWorker.
C9_OtherPurposesAreAdvances ==
  CalledFound =>
    /\ call.summary.totalAdvances
         = SumOver(SelectSeq(advances, LAMBDA r : r.purpose \notin DebitPurposes),
                   LAMBDA r : r.amount)
    /\ call.summary.debitsToWorker
         = SumOver(SelectSeq(advances, LAMBDA r : r.purpose \in DebitPurposes),
                   LAMBDA r : r.amount)
    /\ \A p \in PurposeValues \ DebitPurposes, a \in Amounts :
         LET more == WithAdvances(<<[purpose |-> p, amount |-> a]>> \o advances)
         IN  /\ more.totalAdvances = call.summary.totalAdvances + a
             /\ more.totalBalance = call.summary.totalBalance - a
             /\ more.debitsToWorker = call.summary.debitsToWorker

\* C9 witness: a summary of a found site whose advances hold one of a purpose
\* the enumeration does not have.
C9_Witness ==
  /\ CalledFound
  /\ \E i \in 1..Len(advances) : advances[i].purpose \notin AdvancePurpose

\* C10: every summary returned has the field pendingInvoices, equal to 0.
C10_PendingInvoicesZero ==
  call.done =>
    /\ "pendingInvoices" \in DOMAIN call.summary
    /\ call.summary.pendingInvoices = 0

\* C10 witness: a summary of a found site whose invoices hold one with
\* pending payment.
C10_Witness ==
  /\ CalledFound
  /\ \E i \in 1..Len(invoices) : invoices[i].paymentStatus = "pending"

\* The lists with the same records as a list, in every order.
Reorderings(list) ==
  {[i \in 1..Len(list) |-> list[f[i]]] :
     f \in {g \in [1..Len(list) -> 1..Len(list)] :
              \A i, j \in 1..Len(list) : i # j => g[i] # g[j]}}

\* C11: the summary does not depend on the order of the records: with the
\* four lists reordered in any way, calculateSiteFinancials returns the
\* summary it returned.
C11_OrderIndependent ==
  call.done =>
    \A exps \in Reorderings(expenses), advs \in Reorderings(advances),
       funds \in Reorderings(fundsReceived), invs \in Reorderings(invoices) :
      calculateSiteFinancials(sites, exps, advs, funds, invs, call.siteId)
        = call.summary

\* C11 witness: a summary of a found site over two expenses of different
\* amounts.
C11_Witness ==
  /\ CalledFound
  /\ Len(expenses) >= 2
  /\ expenses[1].amount # expenses[2].amount

(***************************************************************************)
(* The role gate, checkRole(allowedRoles)(req, res, next)                  *)
(***************************************************************************)
\* The members of the UserRole enumeration, and a role value it lacks.
UserRole == {"ADMIN", "SUPERVISOR", "VIEWER"}
RoleValues == UserRole \cup {"GUEST"}

\* req.user: no user attached, or a user with a role.
RequestUsers == {"none"} \cup RoleValues

\* The allow-lists: arrays of roles without repetition.
AllowLists ==
  {<<>>} \cup {<<a>> : a \in UserRole}
         \cup {<<p[1], p[2]>> : p \in {q \in UserRole \X UserRole : q[1] # q[2]}}
         \cup {<<p[1], p[2], p[3]>> :
                 p \in {q \in UserRole \X UserRole \X UserRole :
                          q[1] # q[2] /\ q[1] # q[3] /\ q[2] # q[3]}}

\* allowedRoles.includes(role)
includes(list, x) == \E i \in 1..Len(list) : list[i] = x

\* A request reaches the middleware built by checkRole(allowedRoles).
GateReceive(user, allowedRoles) ==
  /\ mw.pc \in {"idle", "done"}
  /\ mw' = [NoRequest EXCEPT !.pc = "received", !.user = user,
                             !.allowedRoles = allowedRoles]

\* What the middleware leaves behind without the test of the role.
checkRoleOutcome_noRoleCheck(m) ==
  IF m.user = "none"
    THEN [m EXCEPT !.pc = "done", !.status = 401, !.body = "Unauthorized",
                   !.sends = m.sends + 1]
    ELSE [m EXCEPT !.pc = "done", !.nextCalls = m.nextCalls + 1]

\* What the middleware leaves behind: 401, 403 or a call of next().
checkRoleOutcome(m) ==
  IF m.user = "none"
    THEN [m EXCEPT !.pc = "done", !.status = 401, !.body = "Unauthorized",
                   !.sends = m.sends + 1]
  ELSE IF ~includes(m.allowedRoles, m.user)
    THEN [m EXCEPT !.pc = "done", !.status = 403, !.body = "Forbidden",
                   !.sends = m.sends + 1]
  ELSE [m EXCEPT !.pc = "done", !.nextCalls = m.nextCalls + 1]

\* The middleware runs on the request.
checkRole ==
  /\ mw.pc = "received"
  /\ mw' = checkRoleOutcome(mw)

InitGate ==
  /\ sites = <<>>
  /\ expenses = <<>>
  /\ advances = <<>>
  /\ fundsReceived = <<>>
  /\ invoices = <<>>
  /\ call = NoCall
  /\ GateIdle
  /\ BackendIdle
  /\ PageIdle
  /\ SessionIdle

\* The variables the role gate leaves alone.
OutsideGate ==
  UNCHANGED <<sites, expenses, advances, fundsReceived, invoices, call, backendVars, pageVars,
              sessionVars>>

NextGate ==
  \/ /\ \E user \in RequestUsers, allowedRoles \in AllowLists :
          GateReceive(user, allowedRoles)
     /\ OutsideGate
  \/ checkRole /\ OutsideGate

SpecGate == InitGate /\ [][NextGate]_vars

\* C18: the middleware produces exactly one outcome: 401 when no user is
\* attached, 403 when a user is attached whose role is not in the allow-list,
\* otherwise one call of next() and no response; next() is not called in the
\* 401 and 403 cases.
C18_RoleGateOutcome ==
  mw.pc = "done" =>
    LET allowed == {mw.allowedRoles[i] : i \in 1..Len(mw.allowedRoles)} IN
      /\ mw.user = "none" =>
           mw.status = 401 /\ mw.sends = 1 /\ mw.nextCalls = 0
      /\ (mw.user # "none" /\ mw.user \notin allowed) =>
           mw.status = 403 /\ mw.sends = 1 /\ mw.nextCalls = 0
      /\ (mw.user # "none" /\ mw.user \in allowed) =>
           mw.status = 0 /\ mw.sends = 0 /\ mw.nextCalls = 1

\* C18 witness: a request of a user whose role is not in a non-empty
\* allow-list was answered.
C18_Witness ==
  /\ mw.pc = "done"
  /\ mw.user \in UserRole
  /\ mw.allowedRoles # <<>>
  /\ mw.status = 403

(***************************************************************************)
(* The increment_funds endpoint                                            *)
(* (src/supabase/functions/increment_funds/index.ts)                       *)
(***************************************************************************)
\* What a backend request can end with: data, an error object, or a thrown
\* exception.
Outcomes == {"ok", "error", "throw"}

\* The site_id of a request body: missing, the id of a row, an id without row.
IncSiteIds == {"", "s1", "s2", "s9"}

\* The amount of a request body: undefined or a number.
IncAmounts == {null, <<0>>, <<100>>, <<200>>}

\* Table sites as the endpoint finds it: s1 with funds 0, s2 with funds null.
IncSites ==
  [s \in SiteIds |->
     [present |-> TRUE, funds |-> IF s = "s1" THEN <<0>> ELSE null,
      is_completed |-> FALSE, completion_date |-> "", supervisor_id |-> "u1"]]

\* the test with !amount in place of amount === undefined
missingInput_falsy(site_id, amount) == site_id = "" \/ amount = null \/ amount = <<0>>

\* !site_id || amount === undefined
missingInput(site_id, amount) == site_id = "" \/ amount = null

\* A response with an error body ends the invocation.
incError(op, status) ==
  [op EXCEPT !.pc = "done", !.status = status, !.body = "error"]

\* From the arrival of the request to the select of the site's funds.
incReceive(op, method, parsed, site_id, amount) ==
  LET got == [op EXCEPT !.handler = "increment_funds", !.method = method] IN
  IF method = "OPTIONS"
    THEN [got EXCEPT !.pc = "done", !.status = 200]
  ELSE IF ~parsed
    THEN incError([got EXCEPT !.parsed = FALSE], 500)
  ELSE IF missingInput(site_id, amount)
    THEN [got EXCEPT !.parsed = TRUE, !.siteId = site_id, !.amount = amount,
                     !.pc = "done", !.status = 400, !.body = "error"]
  ELSE [got EXCEPT !.parsed = TRUE, !.siteId = site_id, !.amount = amount,
                   !.pc = "select", !.reqs = <<"select">>]

\* the handler without the test of siteError
incAfterSelect_unchecked(op, outcome, funds) ==
  IF outcome = "throw"
    THEN incError(op, 500)
    ELSE [op EXCEPT !.cur = IF outcome = "ok" THEN OrZero(funds) ELSE 0,
                    !.pc = "update", !.reqs = Append(op.reqs, "update")]

\* From the answer of the select to the update of the site's funds.
incAfterSelect(op, outcome, funds) ==
  IF outcome # "ok"
    THEN incError(op, 500)
    ELSE [op EXCEPT !.cur = OrZero(funds),
                    !.pc = "update", !.reqs = Append(op.reqs, "update")]

\* the response with the stored value in place of the computed one
incAfterUpdate_stale(op, outcome) ==
  IF outcome # "ok"
    THEN incError(op, 500)
    ELSE [op EXCEPT !.pc = "done", !.status = 200, !.body = "success",
                    !.prev = op.cur, !.new = op.cur]

\* From the answer of the update to the response.
incAfterUpdate(op, outcome) ==
  IF outcome # "ok"
    THEN incError(op, 500)
    ELSE [op EXCEPT !.pc = "done", !.status = 200, !.body = "success",
                    !.prev = op.cur, !.new = op.cur + op.amount[1]]

\* the update with the amount in place of newFunds
incNewFunds_amount(op) == op.amount[1]

\* const newFunds = currentFunds + amount
incNewFunds(op) == op.cur + op.amount[1]

\* A request arrives: preflight, or body parsing and the test of the input.
IncReceive(o, method, parsed, site_id, amount) ==
  /\ ops[o].pc = "idle"
  /\ ops' = [ops EXCEPT ![o] = incReceive(ops[o], method, parsed, site_id, amount)]
  /\ UNCHANGED dbSites

\* The outcome of a request, kept beside what the handler made of it.
answered(op, request, outcome) ==
  [op EXCEPT !.outs = Append(op.outs, outcome),
             !.failed = IF outcome = "ok" THEN op.failed ELSE op.failed \cup {request}]

\* The select of the site's funds is answered; .single() fails without row.
IncSelect(o, outcome) ==
  /\ ops[o].handler = "increment_funds"
  /\ ops[o].pc = "select"
  /\ outcome = "ok" => ops[o].siteId \in SiteIds /\ dbSites[ops[o].siteId].present
  /\ ops' = [ops EXCEPT ![o] =
               answered(incAfterSelect(ops[o], outcome,
                                       IF ops[o].siteId \in SiteIds
                                         THEN dbSites[ops[o].siteId].funds ELSE null),
                        "select", outcome)]
  /\ UNCHANGED dbSites

\* The update of the site's funds is answered; a request that ends with an
\* exception may or may not have been applied, and an update that matches no
\* row writes nothing.
IncUpdate(o, outcome, applied) ==
  /\ ops[o].handler = "increment_funds"
  /\ ops[o].pc = "update"
  /\ outcome = "ok" => applied
  /\ outcome = "error" => ~applied
  /\ ops' = [ops EXCEPT ![o] = answered(incAfterUpdate(ops[o], outcome), "update", outcome)]
  /\ dbSites' =
       IF applied /\ ops[o].siteId \in SiteIds
         THEN [dbSites EXCEPT ![ops[o].siteId].funds = <<incNewFunds(ops[o])>>]
         ELSE dbSites

InitInc ==
  /\ sites = <<>>
  /\ expenses = <<>>
  /\ advances = <<>>
  /\ fundsReceived = <<>>
  /\ invoices = <<>>
  /\ call = NoCall
  /\ GateIdle
  /\ dbSites = IncSites
  /\ ops = [o \in Slots |-> IdleOp]
  /\ PageIdle
  /\ SessionIdle

\* The variables the endpoint leaves alone.
OutsideBackend ==
  UNCHANGED <<sites, expenses, advances, fundsReceived, invoices, call, gateVars, sessionVars, pageVars>>

\* Invocations of the endpoint, two at most, running concurrently.
NextInc ==
  \/ /\ \E o \in Slots, method \in {"OPTIONS", "POST"}, parsed \in BOOLEAN,
          site_id \in IncSiteIds, amount \in IncAmounts :
          /\ method = "OPTIONS" => ~parsed /\ site_id = "" /\ amount = null
          /\ ~parsed => site_id = "" /\ amount = null
          /\ IncReceive(o, method, parsed, site_id, amount)
     /\ OutsideBackend
  \/ /\ \E o \in Slots, outcome \in Outcomes : IncSelect(o, outcome)
     /\ OutsideBackend
  \/ /\ \E o \in Slots, outcome \in Outcomes, applied \in BOOLEAN :
          IncUpdate(o, outcome, applied)
     /\ OutsideBackend

SpecInc == InitInc /\ [][NextInc]_vars

\* Invocations of the endpoint, one after the other.
NextIncSeq ==
  \/ /\ \E o \in Slots, method \in {"OPTIONS", "POST"}, parsed \in BOOLEAN,
          site_id \in IncSiteIds, amount \in IncAmounts :
          /\ \A other \in Slots : ops[other].pc \in {"idle", "done"}
          /\ method = "OPTIONS" => ~parsed /\ site_id = "" /\ amount = null
          /\ ~parsed => site_id = "" /\ amount = null
          /\ IncReceive(o, method, parsed, site_id, amount)
     /\ OutsideBackend
  \/ /\ \E o \in Slots, outcome \in Outcomes : IncSelect(o, outcome)
     /\ OutsideBackend
  \/ /\ \E o \in Slots, outcome \in Outcomes, applied \in BOOLEAN :
          IncUpdate(o, outcome, applied)
     /\ OutsideBackend

SpecIncSeq == InitInc /\ [][NextIncSeq]_vars

\* C13: when two concurrent invocations have added 100 and 200 to the site
\* whose stored funds was 0, the stored funds is 300, 100 or 200, and it is the
\* new_funds one of the two computed from what it had read.
BothAdded ==
  /\ \A o \in Slots :
       /\ ops[o].handler = "increment_funds"
       /\ ops[o].pc = "done"
       /\ ops[o].status = 200
       /\ ops[o].body = "success"
       /\ ops[o].siteId = "s1"
  /\ {ops[1].amount, ops[2].amount} = {<<100>>, <<200>>}

C13_ConcurrentOutcomes ==
  BothAdded =>
    /\ dbSites["s1"].funds \in {<<300>>, <<100>>, <<200>>}
    /\ dbSites["s1"].funds \in {<<ops[1].new>>, <<ops[2].new>>}

\* C13 witness: a lost update, both invocations answered 200 and the stored
\* funds is 100 or 200.
C13_Witness ==
  /\ BothAdded
  /\ dbSites["s1"].funds \in {<<100>>, <<200>>}

\* The serialized outcome of the two invocations.
C13_Serialized ==
  /\ BothAdded
  /\ dbSites["s1"].funds = <<300>>

\* The step in which invocation o of the endpoint receives its request.
IncReceived(o) ==
  /\ ops[o].pc = "idle"
  /\ ops'[o].handler = "increment_funds"

\* The step in which the request of invocation o at pc is answered.
IncAnswered(o, pc) ==
  /\ ops[o].handler = "increment_funds"
  /\ ops[o].pc = pc
  /\ ops'[o].pc # pc

\* C15: an invocation with site_id and amount, alone and without backend
\* error, answers 200 with success, previous_funds the stored funds (0 for
\* null), new_funds = previous_funds + amount, and stores new_funds in that
\* site and nothing in another.
C15_AloneIncrement ==
  [][\A o \in Slots :
       (IncAnswered(o, "update") /\ \A i \in 1..Len(ops'[o].outs) : ops'[o].outs[i] = "ok")
         => /\ ops'[o].pc = "done"
            /\ ops'[o].status = 200
            /\ ops'[o].body = "success"
            /\ ops'[o].prev = OrZero(dbSites[ops[o].siteId].funds)
            /\ ops'[o].new = ops'[o].prev + ops[o].amount[1]
            /\ dbSites'[ops[o].siteId].funds = <<ops'[o].new>>
            /\ \A s \in SiteIds \ {ops[o].siteId} : dbSites'[s] = dbSites[s]]_vars

\* C15 witness: 100 added to the site whose stored funds was null.
C15_Witness ==
  \E o \in Slots :
    /\ ops[o].pc = "done"
    /\ ops[o].status = 200
    /\ ops[o].siteId = "s2"
    /\ ops[o].amount = <<100>>
    /\ ops[o].prev = 0
    /\ dbSites["s2"].funds = <<100>>
    /\ dbSites["s1"].funds = <<0>>

\* C16: a request whose body was read is answered 400 with an error body
\* exactly when site_id is falsy or amount is undefined, and then nothing is
\* requested of the backend and the stored funds stay as they were.
C16_MissingInput ==
  [][\A o \in Slots :
       (IncReceived(o) /\ ops'[o].method = "POST" /\ ops'[o].parsed)
         => /\ (ops'[o].status = 400)
                 <=> (ops'[o].siteId = "" \/ ops'[o].amount = null)
            /\ ops'[o].status = 400
                 => /\ ops'[o].body = "error"
                    /\ ops'[o].pc = "done"
                    /\ ops'[o].reqs = <<>>
                    /\ dbSites' = dbSites]_vars

\* C16 witness: one request without site_id answered 400, one with amount 0
\* answered 200.
C16_Witness ==
  \E o, other \in Slots :
    /\ ops[o].pc = "done"
    /\ ops[o].parsed
    /\ ops[o].status = 400
    /\ ops[o].reqs = <<>>
    /\ ops[other].pc = "done"
    /\ ops[other].amount = <<0>>
    /\ ops[other].status = 200

\* C17: a failed read, a failed update or an exception is answered 500 with an
\* error body; after a failed read no update is issued and the stored funds
\* stay as they were.
C17_BackendFailure ==
  [][\A o \in Slots :
       /\ (IncReceived(o) /\ ops'[o].method = "POST" /\ ~ops'[o].parsed)
            => ops'[o].pc = "done" /\ ops'[o].status = 500 /\ ops'[o].body = "error"
       /\ (IncAnswered(o, "select") /\ ops'[o].outs # <<"ok">>)
            => /\ ops'[o].pc = "done"
               /\ ops'[o].status = 500
               /\ ops'[o].body = "error"
               /\ ops'[o].reqs = <<"select">>
               /\ dbSites' = dbSites
       /\ (IncAnswered(o, "update") /\ ops'[o].outs # <<"ok", "ok">>)
            => ops'[o].pc = "done" /\ ops'[o].status = 500 /\ ops'[o].body = "error"]_vars

\* C17 witness: one invocation whose read failed, one whose update failed.
C17_Witness ==
  \E o, other \in Slots :
    /\ ops[o].pc = "done"
    /\ ops[o].outs = <<"error">>
    /\ ops[o].status = 500
    /\ ops[other].pc = "done"
    /\ ops[other].outs = <<"ok", "error">>
    /\ ops[other].status = 500

(***************************************************************************)
(* The handlers of the Sites page (checkRole.ts:313-589), of the Invoices  *)
(* page (Invoices.tsx:238-282) and of the advance form                     *)
(* (AdvanceForm.tsx:129-167).  A handler runs in a slot; each await is a   *)
(* step of its own, so two handlers can overlap.  A handler reads the      *)
(* component state of the render it was created in: the slot keeps that    *)
(* state as its closure.                                                   *)
(***************************************************************************)
\* Amounts the forms hand to the handlers.
FundAmounts == {100, 200}
FormAmounts == {100}
\* Purposes the advance form hands over: one that counts as an advance, one
\* that counts as a debit.
FormPurposes == {"ADVANCE", "TOOLS"}
\* The siteId property of a form's record: missing or the selected site.
FormSiteIds == {"", "s1"}
\* The id of the invoice the Invoices page shows.
InvoiceIds == {"i1"}

\* Table sites when the page is opened: s1 with funds 50, no row for s2.
PageDbSites ==
  [s \in SiteIds |->
     IF s = "s1" THEN [present |-> TRUE, funds |-> <<50>>, is_completed |-> FALSE,
                       completion_date |-> "", supervisor_id |-> "u1"]
                 ELSE NoRow]

\* data.map(site => ({ id, ..., isCompleted: site.is_completed, funds: site.funds || 0 }))
transformSite(db, s) ==
  [id |-> s, funds |-> OrZero(db[s].funds), isCompleted |-> db[s].is_completed,
   supervisorId |-> db[s].supervisor_id,
   completionDate |-> IF db[s].completion_date # "" THEN db[s].completion_date ELSE undefined]

\* The rows of table sites, as fetchSites and handleAddSite transform them.
transformedSites(db) ==
  (IF db["s1"].present THEN <<transformSite(db, "s1")>> ELSE <<>>)
    \o (IF db["s2"].present THEN <<transformSite(db, "s2")>> ELSE <<>>)

\* The lists of the two pages.
PageLists == <<sites, expenses, advances, fundsReceived, invoices, invoicesPage>>

\* A handler is invoked: what it was given and the state of its render.
invoked(handler, siteId, amount, purpose) ==
  [IdleOp EXCEPT !.handler = handler, !.siteId = siteId, !.amount = amount,
                 !.purpose = purpose, !.closure = sites, !.before = PageLists]

\* A handler issues a request and awaits its answer.
issue(op, pc, request) == [op EXCEPT !.pc = pc, !.reqs = Append(op.reqs, request)]

\* A handler returns after a notification.
finish(op, toast) == [op EXCEPT !.pc = "done", !.toast = toast]

\* toast.success on data, the catch block's toast.error otherwise.
toastOf(outcome) == IF outcome = "ok" THEN "success" ELSE "error"

\* A write is applied when it is answered with data, not when it is answered
\* with an error; a request that ends with an exception may be either.
Applies(outcome, applied) ==
  /\ outcome = "ok" => applied
  /\ outcome = "error" => ~applied

\* the map without the test of the id
mapSite_all(sts, siteId, key, value) ==
  [i \in 1..Len(sts) |-> [sts[i] EXCEPT ![key] = value]]

\* site.id === siteId ? { ...site, [key]: value } : site
mapSite(sts, siteId, key, value) ==
  [i \in 1..Len(sts) |->
     IF sts[i].id = siteId THEN [sts[i] EXCEPT ![key] = value] ELSE sts[i]]

\* ---- handleAddExpense (checkRole.ts:388-428) ----
\* setExpenses kept when the insert failed
expensesAfter_optimistic(exps, amount, outcome) == <<[amount |-> amount]>> \o exps

\* setExpenses(prevExpenses => [expenseWithId, ...prevExpenses]) on data
expensesAfter(exps, amount, outcome) ==
  IF outcome = "ok" THEN <<[amount |-> amount]>> \o exps ELSE exps

AddExpense(o, siteId, amount) ==
  /\ ops[o].pc = "idle"
  /\ ops' = [ops EXCEPT ![o] =
               issue(invoked("handleAddExpense", siteId, <<amount>>, "none"),
                     "write", "insert expenses")]
  /\ UNCHANGED <<sites, expenses, advances, fundsReceived, invoices, call, gateVars, sessionVars,
                 dbSites, pageVars>>

AddExpenseAnswer(o, outcome, applied) ==
  /\ ops[o].handler = "handleAddExpense"
  /\ ops[o].pc = "write"
  /\ Applies(outcome, applied)
  /\ dbRows' = IF applied
                 THEN [dbRows EXCEPT !.expenses = Append(@, [amount |-> ops[o].amount[1]])]
                 ELSE dbRows
  /\ expenses' = expensesAfter(expenses, ops[o].amount[1], outcome)
  /\ ops' = [ops EXCEPT ![o] =
               answered(finish(ops[o], toastOf(outcome)), "insert expenses", outcome)]
  /\ UNCHANGED <<sites, advances, fundsReceived, invoices, call, gateVars, sessionVars, dbSites,
                 selectedSiteId, invoicesPage, isSubmitting>>

\* ---- handleAddAdvance (checkRole.ts:430-479) ----
\* the insert repeated once after a failure
addAdvanceAnswered_retry(op, outcome) ==
  IF outcome # "ok" /\ Len(op.reqs) < 2
    THEN issue(op, "write", "insert advances")
    ELSE finish(op, toastOf(outcome))

\* if (error) throw error; ... toast.success; catch: toast.error
addAdvanceAnswered(op, outcome) == finish(op, toastOf(outcome))

AddAdvance(o, siteId, purpose, amount) ==
  /\ ops[o].pc = "idle"
  /\ ops' = [ops EXCEPT ![o] =
               IF siteId = "" \/ selectedSiteId = ""
                 THEN finish(invoked("handleAddAdvance", selectedSiteId, <<amount>>, purpose),
                             "error")
                 ELSE issue(invoked("handleAddAdvance", selectedSiteId, <<amount>>, purpose),
                            "write", "insert advances")]
  /\ UNCHANGED <<sites, expenses, advances, fundsReceived, invoices, call, gateVars, sessionVars,
                 dbSites, pageVars>>

AddAdvanceAnswer(o, outcome, applied) ==
  /\ ops[o].handler = "handleAddAdvance"
  /\ ops[o].pc = "write"
  /\ Applies(outcome, applied)
  /\ dbRows' = IF applied
                 THEN [dbRows EXCEPT !.advances =
                         Append(@, [purpose |-> ops[o].purpose, amount |-> ops[o].amount[1]])]
                 ELSE dbRows
  /\ advances' = IF outcome = "ok"
                   THEN <<[purpose |-> ops[o].purpose, amount |-> ops[o].amount[1]]>>
                          \o advances
                   ELSE advances
  /\ ops' = [ops EXCEPT ![o] =
               answered(addAdvanceAnswered(ops[o], outcome), "insert advances", outcome)]
  /\ UNCHANGED <<sites, expenses, fundsReceived, invoices, call, gateVars, sessionVars, dbSites,
                 selectedSiteId, invoicesPage, isSubmitting>>

\* ---- handleAddFunds (checkRole.ts:481-546) ----
\* the read of a property the site does not have
fundsOrZero_missing(site) == IF "fundsReceived" \in DOMAIN site THEN site.fundsReceived ELSE 0

\* site?.funds || 0
fundsOrZero(site) == IF "funds" \in DOMAIN site THEN site.funds ELSE 0

\* the amount alone in place of the cached total plus the amount
updatedFundsOf_uncached(sts, siteId, amount) == amount

\* (sites.find(site => site.id === selectedSiteId)?.funds || 0) + Number(fundWithId.amount)
updatedFundsOf(sts, siteId, amount) == fundsOrZero(find(sts, siteId)) + amount

AddFunds(o, siteId, amount) ==
  /\ ops[o].pc = "idle"
  /\ ops' = [ops EXCEPT ![o] =
               IF siteId = "" \/ selectedSiteId = ""
                 THEN finish(invoked("handleAddFunds", selectedSiteId, <<amount>>, "none"),
                             "error")
                 ELSE issue(invoked("handleAddFunds", selectedSiteId, <<amount>>, "none"),
                            "write", "insert funds_received")]
  /\ UNCHANGED <<sites, expenses, advances, fundsReceived, invoices, call, gateVars, sessionVars,
                 dbSites, pageVars>>

\* The insert into funds_received is answered; on data the record is put in
\* front of the list and the update of the site's funds is issued.
AddFundsInsertAnswer(o, outcome, applied) ==
  /\ ops[o].handler = "handleAddFunds"
  /\ ops[o].pc = "write"
  /\ Applies(outcome, applied)
  /\ dbRows' = IF applied
                 THEN [dbRows EXCEPT !.funds_received =
                         Append(@, [amount |-> ops[o].amount[1]])]
                 ELSE dbRows
  /\ fundsReceived' = IF outcome = "ok"
                        THEN <<[amount |-> ops[o].amount[1]]>> \o fundsReceived
                        ELSE fundsReceived
  /\ ops' = [ops EXCEPT ![o] =
               answered(IF outcome = "ok"
                          THEN issue([ops[o] EXCEPT !.cur =
                                        updatedFundsOf(ops[o].closure, ops[o].siteId,
                                                       ops[o].amount[1])],
                                     "update", "update sites")
                          ELSE finish(ops[o], "error"),
                        "insert funds_received", outcome)]
  /\ UNCHANGED <<sites, expenses, advances, invoices, call, gateVars, sessionVars, dbSites,
                 selectedSiteId, invoicesPage, isSubmitting>>

\* The update of sites.funds is answered; an error is logged only, and
\* fetchSites and fetchSiteFundsReceived are called without being awaited.
AddFundsUpdateAnswer(o, outcome, applied) ==
  /\ ops[o].handler = "handleAddFunds"
  /\ ops[o].pc = "update"
  /\ Applies(outcome, applied)
  /\ dbSites' = IF applied /\ dbSites[ops[o].siteId].present
                  THEN [dbSites EXCEPT ![ops[o].siteId].funds = <<ops[o].cur>>]
                  ELSE dbSites
  /\ sites' = IF outcome = "ok"
                THEN mapSite(sites, ops[o].siteId, "funds", ops[o].cur)
                ELSE sites
  /\ ops' = [ops EXCEPT ![o] =
               answered(IF outcome = "throw"
                          THEN finish(ops[o], "error")
                          ELSE [issue(issue(ops[o], "refresh", "select sites"),
                                      "refresh", "select funds_received")
                                  EXCEPT !.toast = "success",
                                         !.pending = {"sites", "funds_received"}],
                        "update sites", outcome)]
  /\ UNCHANGED <<expenses, advances, fundsReceived, invoices, call, gateVars, sessionVars, pageVars>>

\* A fetch of the handler is answered; the handler is over with the last.
fetched(op, table, outcome) ==
  answered([op EXCEPT !.pending = op.pending \ {table},
                      !.pc = IF op.pending = {table} THEN "done" ELSE op.pc,
                      !.toast = IF outcome = "ok" THEN op.toast ELSE "error"],
           "select " \o table, outcome)

\* fetchSites (checkRole.ts:79-126), called by handleAddFunds.
FetchSitesAnswer(o, outcome) ==
  /\ ops[o].pc = "refresh"
  /\ "sites" \in ops[o].pending
  /\ sites' = IF outcome = "ok" THEN transformedSites(dbSites) ELSE sites
  /\ ops' = [ops EXCEPT ![o] = fetched(ops[o], "sites", outcome)]
  /\ UNCHANGED <<expenses, advances, fundsReceived, invoices, call, gateVars, sessionVars, dbSites,
                 pageVars>>

\* fetchSiteFundsReceived (checkRole.ts:224-256), called by handleAddFunds.
FetchFundsAnswer(o, outcome) ==
  /\ ops[o].pc = "refresh"
  /\ "funds_received" \in ops[o].pending
  /\ fundsReceived' = IF outcome = "ok" THEN dbRows.funds_received ELSE <<>>
  /\ ops' = [ops EXCEPT ![o] = fetched(ops[o], "funds_received", outcome)]
  /\ UNCHANGED <<sites, expenses, advances, invoices, call, gateVars, sessionVars, dbSites, pageVars>>

\* ---- handleAddSite (checkRole.ts:313-386) ----
\* No error object.
NoError == [code |-> "", message |-> <<>>]

\* The error objects an insert into sites can be answered with, their message
\* as the sequence of its parts: the name's unique constraint, another unique
\* constraint, a rejection that is no unique violation.
SiteInsertErrors ==
  {[code |-> "23505", message |-> <<"duplicate key value violates unique constraint ", "sites_name_key">>],
   [code |-> "23505", message |-> <<"duplicate key value violates unique constraint ", "sites_pos_no_key">>],
   [code |-> "42501", message |-> <<"permission denied for table sites">>]}

\* `Site with name "${siteData.name}" already exists`
alreadyExists(name) == <<"Site with name ", name, " already exists">>

\* 'Failed to create site: ' + error.message
failedToCreate(error) == <<"Failed to create site: ">> \o error.message

\* the test of the error code alone
insertErrorMessage_codeOnly(name, error) ==
  IF error.code = "23505" THEN alreadyExists(name) ELSE failedToCreate(error)

\* error.code === '23505' && error.message.includes('sites_name_key')
insertErrorMessage(name, error) ==
  IF error.code = "23505" /\ includes(error.message, "sites_name_key")
    THEN alreadyExists(name)
    ELSE failedToCreate(error)

\* A handler returns after toast.error(message).
finishError(op, message) == [finish(op, "error") EXCEPT !.message = message]

\* currentSupervisorId: selectedSupervisorId for an admin who selected one,
\* user?.id otherwise; "" when neither has a value.
AddSite(o, name, currentSupervisorId) ==
  /\ ops[o].pc = "idle"
  /\ ops' = [ops EXCEPT ![o] =
               IF currentSupervisorId = ""
                 THEN finishError(invoked("handleAddSite", name, null, "none"),
                                  <<"No supervisor assigned">>)
                 ELSE issue([invoked("handleAddSite", name, null, "none")
                               EXCEPT !.supervisorId = currentSupervisorId],
                            "check", "select sites by name")]
  /\ UNCHANGED <<sites, expenses, advances, fundsReceived, invoices, call, gateVars, sessionVars,
                 dbSites, pageVars>>

\* The lookup by name is answered; its error is not looked at.
AddSiteCheckAnswer(o, outcome, error) ==
  /\ ops[o].handler = "handleAddSite"
  /\ ops[o].pc = "check"
  /\ outcome = "ok" <=> error = NoError
  /\ ops' = [ops EXCEPT ![o] =
               answered(IF outcome = "throw"
                          THEN finishError([ops[o] EXCEPT !.error = error],
                                           failedToCreate(error))
                          ELSE IF outcome = "ok" /\ dbSites[ops[o].siteId].present
                            THEN finishError(ops[o], alreadyExists(ops[o].siteId))
                            ELSE issue(ops[o], "write", "insert sites"),
                        "select sites by name", outcome)]
  /\ UNCHANGED <<sites, expenses, advances, fundsReceived, invoices, call, gateVars, sessionVars,
                 dbSites, pageVars>>

\* What handleAddSite does with the answer of its insert.
addSiteAnswered(op, outcome, error) ==
  IF outcome = "ok"
    THEN [finish(op, "success") EXCEPT !.message = <<"Site ", op.siteId, " created successfully">>]
    ELSE IF outcome = "error"
      THEN finishError([op EXCEPT !.error = error], insertErrorMessage(op.siteId, error))
      ELSE finishError([op EXCEPT !.error = error], failedToCreate(error))

\* The insert is answered; the name of a site is unique (sites_name_key).
AddSiteInsertAnswer(o, outcome, applied, error) ==
  /\ ops[o].handler = "handleAddSite"
  /\ ops[o].pc = "write"
  /\ Applies(outcome, applied)
  /\ outcome = "ok" <=> error = NoError
  /\ applied => ~dbSites[ops[o].siteId].present
  /\ dbSites' = IF applied
                  THEN [dbSites EXCEPT ![ops[o].siteId] =
                          [present |-> TRUE, funds |-> <<0>>, is_completed |-> FALSE,
                           completion_date |-> "",
                           supervisor_id |-> ops[o].supervisorId]]
                  ELSE dbSites
  /\ sites' = IF outcome = "ok"
                THEN Append(sites, transformSite(dbSites', ops[o].siteId))
                ELSE sites
  /\ ops' = [ops EXCEPT ![o] =
               answered(addSiteAnswered(ops[o], outcome, error), "insert sites", outcome)]
  /\ UNCHANGED <<expenses, advances, fundsReceived, invoices, call, gateVars, sessionVars, pageVars>>

\* ---- handleCompleteSite (checkRole.ts:564-589) ----
\* The completion dates the dialog hands over.
CompletionDates == {"2024-03-31"}

CompleteSite(o, siteId, completionDate) ==
  /\ ops[o].pc = "idle"
  /\ ops' = [ops EXCEPT ![o] =
               issue([invoked("handleCompleteSite", siteId, null, "none")
                        EXCEPT !.date = completionDate],
                     "write", "update sites is_completed")]
  /\ UNCHANGED <<sites, expenses, advances, fundsReceived, invoices, call, gateVars, sessionVars,
                 dbSites, pageVars>>

CompleteSiteAnswer(o, outcome, applied) ==
  /\ ops[o].handler = "handleCompleteSite"
  /\ ops[o].pc = "write"
  /\ Applies(outcome, applied)
  /\ dbSites' = IF applied /\ dbSites[ops[o].siteId].present
                  THEN [dbSites EXCEPT ![ops[o].siteId].is_completed = TRUE,
                                       ![ops[o].siteId].completion_date = ops[o].date]
                  ELSE dbSites
  /\ sites' = IF outcome = "ok"
                THEN mapSite(mapSite(sites, ops[o].siteId, "isCompleted", TRUE),
                             ops[o].siteId, "completionDate", ops[o].date)
                ELSE sites
  /\ ops' = [ops EXCEPT ![o] =
               answered(finish(ops[o], toastOf(outcome)), "update sites is_completed",
                        outcome)]
  /\ UNCHANGED <<expenses, advances, fundsReceived, invoices, call, gateVars, sessionVars, pageVars>>

\* ---- handleMakePayment (Invoices.tsx:238-282) ----
\* invoices.map(inv => inv.id === invoice.id ? { ...inv, paymentStatus: PAID } : inv)
updatedInvoices(invs, id) ==
  [i \in 1..Len(invs) |->
     IF invs[i].id = id THEN [invs[i] EXCEPT !.paymentStatus = "paid"] ELSE invs[i]]

MakePayment(o, id) ==
  /\ ops[o].pc = "idle"
  /\ ops' = [ops EXCEPT ![o] =
               issue([invoked("handleMakePayment", id, null, "none")
                        EXCEPT !.closure = invoicesPage],
                     "write", "update site_invoices")]
  /\ UNCHANGED <<sites, expenses, advances, fundsReceived, invoices, call, gateVars, sessionVars,
                 dbSites, pageVars>>

MakePaymentAnswer(o, outcome, applied) ==
  /\ ops[o].handler = "handleMakePayment"
  /\ ops[o].pc = "write"
  /\ Applies(outcome, applied)
  /\ dbRows' = IF applied THEN [dbRows EXCEPT !.paid = @ \cup {ops[o].siteId}] ELSE dbRows
  /\ invoicesPage' = IF outcome = "ok"
                       THEN updatedInvoices(ops[o].closure, ops[o].siteId)
                       ELSE invoicesPage
  /\ ops' = [ops EXCEPT ![o] =
               answered(finish(ops[o], toastOf(outcome)), "update site_invoices", outcome)]
  /\ UNCHANGED <<sites, expenses, advances, fundsReceived, invoices, call, gateVars, sessionVars,
                 dbSites, selectedSiteId, isSubmitting>>

\* ---- AdvanceForm.handleSubmit (AdvanceForm.tsx:129-167) ----
\* The return of a second submission runs the finally block as well.
Submit(o, purpose, amount) ==
  /\ ops[o].pc = "idle"
  /\ ops' = [ops EXCEPT ![o] =
               IF isSubmitting
                 THEN finish(invoked("handleSubmit", "s1", <<amount>>, purpose), "none")
                 ELSE issue(invoked("handleSubmit", "s1", <<amount>>, purpose),
                            "write", "insert advances")]
  /\ isSubmitting' = ~isSubmitting
  /\ UNCHANGED <<sites, expenses, advances, fundsReceived, invoices, call, gateVars, sessionVars,
                 dbSites, selectedSiteId, invoicesPage, dbRows>>

\* onClose called in the finally block
submitAnswered_closeAlways(op, outcome) ==
  [finish(op, toastOf(outcome)) EXCEPT
     !.calls = IF outcome = "ok" THEN <<"onSubmit", "onClose">> ELSE <<"onClose">>]

\* if (error) throw error; toast.success; onSubmit(...); onClose(); catch:
\* toast.error.  onSubmit and onClose are the parent's callbacks.
submitAnswered(op, outcome) ==
  [finish(op, toastOf(outcome)) EXCEPT
     !.calls = IF outcome = "ok" THEN <<"onSubmit", "onClose">> ELSE <<>>]

SubmitAnswer(o, outcome, applied) ==
  /\ ops[o].handler = "handleSubmit"
  /\ ops[o].pc = "write"
  /\ Applies(outcome, applied)
  /\ dbRows' = IF applied
                 THEN [dbRows EXCEPT !.advances =
                         Append(@, [purpose |-> ops[o].purpose, amount |-> ops[o].amount[1]])]
                 ELSE dbRows
  /\ ops' = [ops EXCEPT ![o] =
               answered(submitAnswered(ops[o], outcome), "insert advances", outcome)]
  /\ isSubmitting' = FALSE
  /\ UNCHANGED <<sites, expenses, advances, fundsReceived, invoices, call, gateVars, sessionVars,
                 dbSites, selectedSiteId, invoicesPage>>

\* ---- fetchSites and the effect that calls it (checkRole.ts:79-147) ----
\* the filter taken from selectedSupervisorId for every role
sitesFilter_selected(user, supervisorId) == supervisorId

\* user?.role === SUPERVISOR ? user.id : selectedSupervisorId; "" is no filter
sitesFilter(user, supervisorId) ==
  IF user.role = "SUPERVISOR" THEN user.id ELSE supervisorId

\* The requests fetchSites makes in a render with these values: none behind
\* the guard (hasFetchedData && !selectedSiteId && !location.state), the
\* query of table sites otherwise.
fetchSites(hasFetched, siteId, supervisorId) ==
  IF hasFetched /\ siteId = "" /\ locationState = null
    THEN {}
    ELSE {[table |-> "sites", siteId |-> "",
           filter |-> sitesFilter(authUser, supervisorId)]}

\* selectedSupervisorId after the effect: the user's id for a supervisor, the
\* supervisorId of the navigation state for an admin, unchanged otherwise.
effectSupervisorId(supervisorId) ==
  IF locationState # null /\ locationState[1].supervisorId # "" /\ authUser.role = "ADMIN"
    THEN locationState[1].supervisorId
    ELSE IF authUser.role = "SUPERVISOR" THEN authUser.id ELSE supervisorId

\* The requests of the effect in a render with these values; it runs once
\* more when its own setSelectedSupervisorId changed the value.
effect(hasFetched, siteId, supervisorId) ==
  fetchSites(hasFetched, siteId, supervisorId)
    \cup (IF effectSupervisorId(supervisorId) # supervisorId
            THEN fetchSites(hasFetched, siteId, effectSupervisorId(supervisorId))
            ELSE {})

\* setIsLoading(true) of a fetchSites that passed its guard
loadingAfter(loading, requests) == IF requests # {} THEN TRUE ELSE loading

\* ---- the page ----
\* onBack={() => setSelectedSiteId(null)}; the effect runs for the new render
onBack ==
  /\ selectedSiteId # ""
  /\ ~isLoading
  /\ selectedSiteId' = ""
  /\ selectedSupervisorId' = effectSupervisorId(selectedSupervisorId)
  /\ fetches' = fetches \cup effect(hasFetchedData, "", selectedSupervisorId)
  /\ isLoading' = loadingAfter(isLoading, effect(hasFetchedData, "", selectedSupervisorId))
  /\ UNCHANGED <<sites, expenses, advances, fundsReceived, invoices, call, gateVars,
                 backendVars, invoicesPage, isSubmitting, dbRows,
                 authUser, locationState, hasFetchedData>>

\* The render of the detail view: balanceSummary={calculateSiteFinancials(selectedSite.id)}
Render ==
  /\ find(sites, selectedSiteId) # noSite
  /\ Calculate(selectedSiteId)
  /\ UNCHANGED <<gateVars, sessionVars, backendVars, pageVars>>

InitPage ==
  /\ sites = transformedSites(PageDbSites)
  /\ expenses = <<>>
  /\ advances = <<>>
  /\ fundsReceived = <<>>
  /\ invoices = <<>>
  /\ call = NoCall
  /\ GateIdle
  /\ dbSites = PageDbSites
  /\ ops = [o \in Slots |-> IdleOp]
  /\ selectedSiteId = "s1"
  /\ invoicesPage = <<[id |-> "i1", paymentStatus |-> "pending"]>>
  /\ isSubmitting = FALSE
  /\ dbRows = NoRows
  /\ authUser = [id |-> "a1", role |-> "ADMIN"]
  /\ selectedSupervisorId = ""
  /\ locationState = null
  /\ hasFetchedData = TRUE
  /\ isLoading = FALSE
  /\ fetches = {}

\* Slots are taken in order: which slot a handler runs in makes no difference.
Free(o) == \A p \in Slots : ops[p].pc = "idle" <=> p >= o

NextPage ==
  \/ \E o \in Slots, amount \in FormAmounts :
       Free(o) /\ AddExpense(o, "s1", amount)
  \/ \E o \in Slots, outcome \in Outcomes, applied \in BOOLEAN :
       AddExpenseAnswer(o, outcome, applied)
  \/ \E o \in Slots, siteId \in FormSiteIds, purpose \in FormPurposes, amount \in FormAmounts :
       Free(o) /\ AddAdvance(o, siteId, purpose, amount)
  \/ \E o \in Slots, outcome \in Outcomes, applied \in BOOLEAN :
       AddAdvanceAnswer(o, outcome, applied)
  \/ \E o \in Slots, siteId \in FormSiteIds, amount \in FundAmounts :
       Free(o) /\ AddFunds(o, siteId, amount)
  \/ \E o \in Slots, outcome \in Outcomes, applied \in BOOLEAN :
       AddFundsInsertAnswer(o, outcome, applied)
  \/ \E o \in Slots, outcome \in Outcomes, applied \in BOOLEAN :
       AddFundsUpdateAnswer(o, outcome, applied)
  \/ \E o \in Slots, outcome \in Outcomes : FetchSitesAnswer(o, outcome)
  \/ \E o \in Slots, outcome \in Outcomes : FetchFundsAnswer(o, outcome)
  \/ \E o \in Slots, name \in SiteIds, currentSupervisorId \in {"", "u1"} :
       Free(o) /\ AddSite(o, name, currentSupervisorId)
  \/ \E o \in Slots, outcome \in Outcomes, error \in SiteInsertErrors \cup {NoError} :
       AddSiteCheckAnswer(o, outcome, error)
  \/ \E o \in Slots, outcome \in Outcomes, applied \in BOOLEAN,
          error \in SiteInsertErrors \cup {NoError} :
       AddSiteInsertAnswer(o, outcome, applied, error)
  \/ \E o \in Slots, siteId \in SiteIds, completionDate \in CompletionDates :
       Free(o) /\ CompleteSite(o, siteId, completionDate)
  \/ \E o \in Slots, outcome \in Outcomes, applied \in BOOLEAN :
       CompleteSiteAnswer(o, outcome, applied)
  \/ \E o \in Slots, id \in InvoiceIds : Free(o) /\ MakePayment(o, id)
  \/ \E o \in Slots, outcome \in Outcomes, applied \in BOOLEAN :
       MakePaymentAnswer(o, outcome, applied)
  \/ \E o \in Slots, purpose \in FormPurposes, amount \in FormAmounts :
       Free(o) /\ Submit(o, purpose, amount)
  \/ \E o \in Slots, outcome \in Outcomes, applied \in BOOLEAN :
       SubmitAnswer(o, outcome, applied)
  \/ /\ \E o \in Slots, site_id \in {"", "s1"}, amount \in {null, <<100>>} :
          Free(o) /\ IncReceive(o, "POST", TRUE, site_id, amount)
     /\ OutsideBackend
  \/ /\ \E o \in Slots, outcome \in Outcomes : IncSelect(o, outcome)
     /\ OutsideBackend
  \/ /\ \E o \in Slots, outcome \in Outcomes, applied \in BOOLEAN :
          IncUpdate(o, outcome, applied)
     /\ OutsideBackend

SpecPage == InitPage /\ [][NextPage]_vars

\* The detail view of the selected site: its renders, the way back to the
\* list, and the handlers that add an expense and funds, one at a time.
NextDetail ==
  \/ Render
  \/ onBack
  \/ \E amount \in FormAmounts : AddExpense(1, "s1", amount)
  \/ \E outcome \in Outcomes, applied \in BOOLEAN : AddExpenseAnswer(1, outcome, applied)
  \/ \E siteId \in FormSiteIds, amount \in FundAmounts : AddFunds(2, siteId, amount)
  \/ \E outcome \in Outcomes, applied \in BOOLEAN : AddFundsInsertAnswer(2, outcome, applied)
  \/ \E outcome \in Outcomes, applied \in BOOLEAN : AddFundsUpdateAnswer(2, outcome, applied)
  \/ \E outcome \in Outcomes : FetchSitesAnswer(2, outcome)
  \/ \E outcome \in Outcomes : FetchFundsAnswer(2, outcome)

SpecDetail == InitPage /\ [][NextDetail]_vars

\* C12: a call of calculateSiteFinancials leaves the five lists and the
\* selected site as they are and issues no backend request: the handlers in
\* flight, their requests and the tables are as before the call.
C12_CalculateHasNoSideEffect ==
  [][(call' # call /\ call'.done)
       => UNCHANGED <<sites, expenses, advances, fundsReceived, invoices,
                      selectedSiteId, invoicesPage, ops, dbSites, dbRows>>]_vars

\* C12 witness: the summary of the selected site was computed from an expense
\* and funds, which are still in their lists.
C12_Witness ==
  /\ call.done
  /\ call.siteId = "s1"
  /\ call.summary.totalExpenditure > 0
  /\ call.summary.fundsReceived > 0
  /\ expenses # <<>>
  /\ fundsReceived # <<>>

\* Both slots ran handleAddFunds for s1, and both the insert and the update of
\* each were answered with data.
BothFundsAdded ==
  \A o \in Slots :
    /\ ops[o].handler = "handleAddFunds"
    /\ ops[o].siteId = "s1"
    /\ Len(ops[o].outs) >= 2
    /\ ops[o].outs[1] = "ok"
    /\ ops[o].outs[2] = "ok"

\* C14: after two handleAddFunds operations on the same site both
\* funds_received rows are inserted, and the stored sites.funds is the initial
\* value plus both amounts or, the two having raced on the cached total, the
\* initial value plus one amount only.
C14_FundsRace ==
  BothFundsAdded =>
    /\ Len(dbRows.funds_received) = 2
    /\ dbSites["s1"].funds \in
         {<<50 + ops[1].amount[1] + ops[2].amount[1]>>,
          <<50 + ops[1].amount[1]>>, <<50 + ops[2].amount[1]>>}

\* C14 witness: both rows inserted, the stored funds below the initial value
\* plus both amounts.
C14_Witness ==
  /\ BothFundsAdded
  /\ Len(dbRows.funds_received) = 2
  /\ dbSites["s1"].funds[1] < 50 + ops[1].amount[1] + ops[2].amount[1]

\* C19: a handler issues no request that has failed in the same invocation.
C19_NoRetry ==
  [][\A o \in Slots :
       \A i \in (Len(ops[o].reqs) + 1)..Len(ops'[o].reqs) :
         ops'[o].reqs[i] \notin ops'[o].failed]_vars

\* C19 witness: handleAddAdvance ended after its failed insert, and
\* handleAddFunds ended after its failed update.
C19_Witness ==
  /\ ops[1].handler = "handleAddAdvance"
  /\ ops[1].pc = "done"
  /\ ops[1].failed = {"insert advances"}
  /\ ops[1].reqs = <<"insert advances">>
  /\ ops[2].handler = "handleAddFunds"
  /\ ops[2].pc = "done"
  /\ "update sites" \in ops[2].failed

\* The handlers whose failed write leaves the page as it was.
RecoveringHandlers ==
  {"handleAddExpense", "handleAddAdvance", "handleAddSite", "handleCompleteSite",
   "handleMakePayment"}

\* The step in which the write of the handler in slot o is answered with an
\* error or ends with an exception.
WriteFailed(o) ==
  /\ ops[o].handler \in RecoveringHandlers
  /\ ops[o].pc = "write"
  /\ Len(ops'[o].outs) = Len(ops[o].outs) + 1
  /\ ops'[o].outs[Len(ops'[o].outs)] # "ok"

\* C20: when the write of one of these handlers fails the handler returns
\* after an error notification, and the lists are as they were, also as they
\* were when the handler was invoked if no other handler ran meanwhile.
C20_FailedWriteRecovered ==
  [][\A o \in Slots :
       WriteFailed(o)
         => /\ ops'[o].pc = "done"
            /\ ops'[o].toast = "error"
            /\ PageLists' = PageLists
            /\ (\A p \in Slots \ {o} : ops[p].pc = "idle")
                 => PageLists' = ops[o].before]_vars

\* C20 witness: the insert of handleAddSite and the update of
\* handleMakePayment have failed.
C20_Witness ==
  /\ ops[1].handler = "handleAddSite"
  /\ ops[1].pc = "done"
  /\ ops[1].failed = {"insert sites"}
  /\ ops[1].toast = "error"
  /\ ops[2].handler = "handleMakePayment"
  /\ ops[2].pc = "done"
  /\ ops[2].failed = {"update site_invoices"}
  /\ ops[2].toast = "error"
  /\ PageLists = ops[2].before

\* The step in which a request of the handleAddFunds in slot o, its insert or
\* its update, is answered with an error or ends with an exception.
FundsRequestFailed(o) ==
  /\ ops[o].handler = "handleAddFunds"
  /\ ops[o].pc \in {"write", "update"}
  /\ Len(ops'[o].outs) = Len(ops[o].outs) + 1
  /\ ops'[o].outs[Len(ops'[o].outs)] # "ok"

\* C21: when the insert or the update of handleAddFunds fails, an error
\* notification and no success notification is shown, the handler is over,
\* and the fundsReceived list and the sites list (the cached funds) are as
\* they were when the handler was invoked, no other handler having run.
C21_FundsFailureRecovered ==
  [][\A o \in Slots :
       (FundsRequestFailed(o) /\ \A p \in Slots \ {o} : ops[p].pc = "idle")
         => /\ ops'[o].pc = "done"
            /\ ops'[o].toast = "error"
            /\ fundsReceived' = ops[o].before[4]
            /\ sites' = ops[o].before[1]]_vars

\* The step in which the handleAddSite in slot o goes on from pc.
AddSiteAnswered(o, pc) ==
  /\ ops[o].handler = "handleAddSite"
  /\ ops[o].pc = pc
  /\ ops'[o].pc # pc

\* C22: a site found by the lookup, or an insert error with code 23505 that
\* names sites_name_key, gives the message that a site with that name already
\* exists; every other insert error gives 'Failed to create site: ' and the
\* backend's message; in both cases the sites list stays as it is.
C22_AddSiteMessages ==
  [][\A o \in Slots :
       /\ (AddSiteAnswered(o, "check") /\ ops'[o].outs = <<"ok">>
             /\ dbSites[ops[o].siteId].present)
            => /\ ops'[o].pc = "done"
               /\ ops'[o].toast = "error"
               /\ ops'[o].message = <<"Site with name ", ops[o].siteId, " already exists">>
               /\ sites' = sites
       /\ (AddSiteAnswered(o, "write") /\ ops'[o].outs[Len(ops'[o].outs)] = "error")
            => /\ ops'[o].pc = "done"
               /\ ops'[o].toast = "error"
               /\ ops'[o].message =
                    IF /\ ops'[o].error.code = "23505"
                       /\ \E i \in 1..Len(ops'[o].error.message) :
                            ops'[o].error.message[i] = "sites_name_key"
                      THEN <<"Site with name ", ops[o].siteId, " already exists">>
                      ELSE <<"Failed to create site: ">> \o ops'[o].error.message
               /\ sites' = sites]_vars

\* C22 witness: one handleAddSite ended with the message of a duplicate name,
\* the other with the backend's message of another unique violation.
C22_Witness ==
  /\ ops[1].handler = "handleAddSite"
  /\ ops[1].message = <<"Site with name ", ops[1].siteId, " already exists">>
  /\ ops[2].handler = "handleAddSite"
  /\ ops[2].error.code = "23505"
  /\ ops[2].message = <<"Failed to create site: ">> \o ops[2].error.message
  /\ Len(sites) = 1

\* C28: a site completed in the backend stays completed; and a successful
\* handleCompleteSite(siteId, date) sets is_completed and the completion date
\* of the site with that id, in the backend and in the list, and changes no
\* other site.
C28_CompletionMonotone ==
  [][/\ \A s \in SiteIds :
          (dbSites[s].present /\ dbSites[s].is_completed)
            => (dbSites'[s].present /\ dbSites'[s].is_completed)
     /\ \A o \in Slots :
          (/\ ops[o].handler = "handleCompleteSite"
           /\ ops[o].pc = "write"
           /\ ops'[o].outs = <<"ok">>)
            => /\ \A s \in SiteIds :
                    dbSites'[s] =
                      IF s = ops[o].siteId /\ dbSites[s].present
                        THEN [dbSites[s] EXCEPT !.is_completed = TRUE,
                                                !.completion_date = ops[o].date]
                        ELSE dbSites[s]
               /\ Len(sites') = Len(sites)
               /\ \A i \in 1..Len(sites) :
                    sites'[i] =
                      IF sites[i].id = ops[o].siteId
                        THEN [sites[i] EXCEPT !.isCompleted = TRUE,
                                              !.completionDate = ops[o].date]
                        ELSE sites[i]]_vars

\* C28 witness: s1 was completed while the list held s2 as well, and s2 is
\* not completed.
C28_Witness ==
  /\ \E o \in Slots :
       /\ ops[o].handler = "handleCompleteSite"
       /\ ops[o].siteId = "s1"
       /\ ops[o].outs = <<"ok">>
  /\ dbSites["s1"].is_completed
  /\ Len(sites) = 2
  /\ sites[1].isCompleted
  /\ sites[1].completionDate = "2024-03-31"
  /\ ~sites[2].isCompleted

(***************************************************************************)
(* handleAddFunds run again and again by one client, each operation after  *)
(* the one before is over, its two fetches included, and every request     *)
(* answered with data.                                                     *)
(***************************************************************************)
\* Operations that insert a row.
MaxAdds == 4

\* The handler in slot o is over: the slot takes the next operation.
Again(o) ==
  /\ ops[o].pc = "done"
  /\ Len(dbRows.funds_received) < MaxAdds
  /\ ops' = [ops EXCEPT ![o] = IdleOp]
  /\ UNCHANGED <<sites, expenses, advances, fundsReceived, invoices, call, gateVars, sessionVars,
                 dbSites, pageVars>>

NextFundsSeq ==
  \/ \E siteId \in FormSiteIds, amount \in FundAmounts : AddFunds(1, siteId, amount)
  \/ AddFundsInsertAnswer(1, "ok", TRUE)
  \/ AddFundsUpdateAnswer(1, "ok", TRUE)
  \/ FetchSitesAnswer(1, "ok")
  \/ FetchFundsAnswer(1, "ok")
  \/ Again(1)

SpecFundsSeq == InitPage /\ [][NextFundsSeq]_vars

\* The amount of a record.
AmountOf(record) == record.amount

\* C26: with handleAddFunds operations run one after the other and no request
\* failing, between operations the stored funds of the site is its initial
\* value plus the sum of the added amounts and equals the cached funds; each
\* operation inserts one funds_received row, and only then updates the funds,
\* by its amount.
C26_SequentialFunds ==
  /\ [](ops[1].pc \in {"idle", "done"}
          => /\ dbSites["s1"].funds = <<50 + SumOver(dbRows.funds_received, AmountOf)>>
             /\ find(sites, "s1").funds = dbSites["s1"].funds[1])
  /\ [][/\ (ops[1].pc = "write" /\ ops'[1].pc # "write")
             => /\ dbRows'.funds_received =
                     Append(dbRows.funds_received, [amount |-> ops[1].amount[1]])
                /\ dbSites' = dbSites
        /\ (ops[1].pc = "update" /\ ops'[1].pc # "update")
             => /\ dbRows' = dbRows
                /\ dbSites'["s1"].funds = <<dbSites["s1"].funds[1] + ops[1].amount[1]>>
                /\ dbSites["s1"].funds =
                     <<50 + SumOver(dbRows.funds_received, AmountOf) - ops[1].amount[1]>>
        /\ ops[1].pc \notin {"write", "update"}
             => (dbRows' = dbRows /\ dbSites' = dbSites)]_vars

\* C26 witness: three operations are over, of 100, 200 and 100.
C26_Witness ==
  /\ ops[1].pc = "done"
  /\ dbRows.funds_received = <<[amount |-> 100], [amount |-> 200], [amount |-> 100]>>
  /\ dbSites["s1"].funds = <<450>>
  /\ find(sites, "s1").funds = 450

(***************************************************************************)
(* The advance form: handleSubmit called again and again on one form, the  *)
(* insert of a call answered at some time.                                 *)
(***************************************************************************)
\* A call of handleSubmit is over: the slot takes the next call.
SubmitAgain(o) ==
  /\ ops[o].pc = "done"
  /\ Len(dbRows.advances) < MaxAdds
  /\ ops' = [ops EXCEPT ![o] = IdleOp]
  /\ UNCHANGED <<sites, expenses, advances, fundsReceived, invoices, call, gateVars, sessionVars,
                 dbSites, pageVars>>

\* The insert of the call in slot o is answered.
SubmitAnswered(o) ==
  \E outcome \in Outcomes, applied \in BOOLEAN : SubmitAnswer(o, outcome, applied)

NextForm ==
  \/ \E o \in Slots, purpose \in FormPurposes, amount \in FormAmounts :
       Submit(o, purpose, amount)
  \/ \E o \in Slots : SubmitAnswered(o)
  \/ \E o \in Slots : SubmitAgain(o)

\* Every request is answered, with data, with an error or with an exception.
SpecForm == InitPage /\ [][NextForm]_vars /\ \A o \in Slots : WF_vars(SubmitAnswered(o))

\* The calls of handleSubmit whose insert is in flight.
InsertsInFlight == {o \in Slots : ops[o].handler = "handleSubmit" /\ ops[o].pc = "write"}

\* C24: at most one insert of the form is in flight, and isSubmitting is true
\* as long as it is.
C24_SingleSubmission ==
  /\ Cardinality(InsertsInFlight) <= 1
  /\ InsertsInFlight # {} => isSubmitting

\* C29: onSubmit and then onClose are called, once each, exactly when the
\* insert succeeded; when it failed neither is called and an error is shown;
\* and after an insert was issued isSubmitting is false again once it is
\* answered.
C29_SubmitCallbacks ==
  /\ [][\A o \in Slots :
          (ops[o].handler = "handleSubmit" /\ ops[o].pc = "write" /\ ops'[o].pc # "write")
            => /\ ops'[o].outs = <<"ok">>
                    => ops'[o].calls = <<"onSubmit", "onClose">>
               /\ ops'[o].outs # <<"ok">>
                    => (ops'[o].calls = <<>> /\ ops'[o].toast = "error")]_vars
  /\ \A o \in Slots :
       (ops[o].handler = "handleSubmit" /\ ops[o].pc = "write")
         ~> (ops[o].pc = "done" /\ ~isSubmitting)

\* C29 witness: one call whose insert succeeded and one whose insert failed
\* are over.
C29_Witness ==
  /\ ops[1].handler = "handleSubmit"
  /\ ops[1].outs = <<"ok">>
  /\ ops[1].calls = <<"onSubmit", "onClose">>
  /\ ops[2].handler = "handleSubmit"
  /\ ops[2].outs = <<"error">>
  /\ ops[2].calls = <<>>
  /\ ops[2].toast = "error"
  /\ ~isSubmitting


(***************************************************************************)
(* The by-site fetches of the selected site (checkRole.ts:149-301)         *)
(***************************************************************************)
\* Table sites with a row for both sites, of two supervisors.
SwitchSites ==
  [s \in SiteIds |->
     [present |-> TRUE, funds |-> <<50>>, is_completed |-> FALSE, completion_date |-> "",
      supervisor_id |-> IF s = "s1" THEN "u1" ELSE "u2"]]

\* The other tables, with rows of both sites.
SwitchRows ==
  [expenses |-> <<[site_id |-> "s1", amount |-> 100], [site_id |-> "s2", amount |-> 200]>>,
   advances |-> <<[site_id |-> "s1", purpose |-> "ADVANCE", amount |-> 100],
                  [site_id |-> "s2", purpose |-> "TOOLS", amount |-> 200]>>,
   funds_received |-> <<[site_id |-> "s1", amount |-> 100],
                        [site_id |-> "s2", amount |-> 200]>>,
   invoices |-> <<[site_id |-> "s1", net_amount |-> 100, payment_by |-> "supervisor"]>>,
   paid |-> {}]

\* The tables a by-site fetch queries.
BySiteTables == {"expenses", "advances", "funds_received"}

\* .eq('site_id', siteId)
rowsOfSite(rows, siteId) == SelectSeq(rows, LAMBDA row : row.site_id = siteId)

\* data.map(expense => ({ siteId: expense.site_id, amount: Number(expense.amount), ... }));
\* the rows hold numbers.
transformedExpenses(rows) ==
  [i \in 1..Len(rows) |-> [siteId |-> rows[i].site_id, amount |-> rows[i].amount]]

\* data.map(advance => ({ siteId: advance.site_id, purpose, amount: Number(advance.amount), ... }))
transformedAdvances(rows) ==
  [i \in 1..Len(rows) |->
     [siteId |-> rows[i].site_id, purpose |-> rows[i].purpose, amount |-> rows[i].amount]]

\* data.map(fund => ({ siteId: fund.site_id, amount: Number(fund.amount), ... }))
transformedFunds(rows) ==
  [i \in 1..Len(rows) |-> [siteId |-> rows[i].site_id, amount |-> rows[i].amount]]

\* What the query that fetchSiteInvoices holds in a comment would set.
transformedInvoices(rows) ==
  [i \in 1..Len(rows) |->
     [siteId |-> rows[i].site_id, netAmount |-> rows[i].net_amount,
      payment_by |-> rows[i].payment_by]]

\* The rows of table sites that pass the filter of a sites query.
sitesWhere(db, filter) ==
  SelectSeq(transformedSites(db), LAMBDA site : filter = "" \/ site.supervisorId = filter)

\* The requests of the effect on selectedSiteId: fetchSiteExpenses,
\* fetchSiteAdvances and fetchSiteFundsReceived; fetchSiteInvoices makes none.
bySite(siteId) ==
  {[table |-> t, siteId |-> siteId, filter |-> ""] : t \in BySiteTables}

\* filteredSites: the sites of the list, of the selected supervisor if any.
matchesSupervisor(site) ==
  selectedSupervisorId = "" \/ site.supervisorId = selectedSupervisorId

\* onSelectSite={(siteId) => setSelectedSiteId(siteId)}: both effects run for
\* the new render; fetchSiteInvoices sets the invoices to [] at once.
onSelectSite(siteId) ==
  /\ selectedSiteId = ""
  /\ ~isLoading
  /\ \E i \in 1..Len(sites) : sites[i].id = siteId /\ matchesSupervisor(sites[i])
  /\ selectedSiteId' = siteId
  /\ invoices' = <<>>
  /\ selectedSupervisorId' = effectSupervisorId(selectedSupervisorId)
  /\ fetches' = fetches \cup bySite(siteId)
                  \cup effect(hasFetchedData, siteId, selectedSupervisorId)
  /\ isLoading' = loadingAfter(isLoading, effect(hasFetchedData, siteId, selectedSupervisorId))
  /\ UNCHANGED <<sites, expenses, advances, fundsReceived, call, gateVars, backendVars,
                 invoicesPage, isSubmitting, dbRows, authUser, locationState, hasFetchedData>>

\* The query of fetchSites is answered: setSites and setHasFetchedData(true)
\* on data, the toast otherwise, setIsLoading(false) in both cases; the effect
\* runs again when hasFetchedData changed.
FetchSitesDone(req, outcome) ==
  /\ req \in fetches
  /\ req.table = "sites"
  /\ sites' = IF outcome = "ok" THEN sitesWhere(dbSites, req.filter) ELSE sites
  /\ hasFetchedData' = (hasFetchedData \/ outcome = "ok")
  /\ LET again == IF hasFetchedData' # hasFetchedData
                    THEN effect(TRUE, selectedSiteId, selectedSupervisorId)
                    ELSE {}
     IN /\ fetches' = (fetches \ {req}) \cup again
        /\ isLoading' = loadingAfter(FALSE, again)
  /\ selectedSupervisorId' = IF hasFetchedData' # hasFetchedData
                               THEN effectSupervisorId(selectedSupervisorId)
                               ELSE selectedSupervisorId
  /\ UNCHANGED <<expenses, advances, fundsReceived, invoices, call, gateVars, backendVars,
                 pageVars, authUser, locationState>>

\* The query of fetchSiteExpenses is answered.
FetchSiteExpensesDone(req, outcome) ==
  /\ req \in fetches
  /\ req.table = "expenses"
  /\ expenses' = IF outcome = "ok"
                   THEN transformedExpenses(rowsOfSite(dbRows.expenses, req.siteId))
                   ELSE <<>>
  /\ fetches' = fetches \ {req}
  /\ UNCHANGED <<sites, advances, fundsReceived, invoices, call, gateVars, backendVars,
                 pageVars, authUser, selectedSupervisorId, locationState, hasFetchedData,
                 isLoading>>

\* The query of fetchSiteAdvances is answered.
FetchSiteAdvancesDone(req, outcome) ==
  /\ req \in fetches
  /\ req.table = "advances"
  /\ advances' = IF outcome = "ok"
                   THEN transformedAdvances(rowsOfSite(dbRows.advances, req.siteId))
                   ELSE <<>>
  /\ fetches' = fetches \ {req}
  /\ UNCHANGED <<sites, expenses, fundsReceived, invoices, call, gateVars, backendVars,
                 pageVars, authUser, selectedSupervisorId, locationState, hasFetchedData,
                 isLoading>>

\* The query of fetchSiteFundsReceived is answered.
FetchSiteFundsReceivedDone(req, outcome) ==
  /\ req \in fetches
  /\ req.table = "funds_received"
  /\ fundsReceived' = IF outcome = "ok"
                        THEN transformedFunds(rowsOfSite(dbRows.funds_received, req.siteId))
                        ELSE <<>>
  /\ fetches' = fetches \ {req}
  /\ UNCHANGED <<sites, expenses, advances, invoices, call, gateVars, backendVars,
                 pageVars, authUser, selectedSupervisorId, locationState, hasFetchedData,
                 isLoading>>

\* The page of an admin with both sites fetched and no site selected.
InitSwitch ==
  /\ sites = transformedSites(SwitchSites)
  /\ expenses = <<>>
  /\ advances = <<>>
  /\ fundsReceived = <<>>
  /\ invoices = <<>>
  /\ call = NoCall
  /\ GateIdle
  /\ dbSites = SwitchSites
  /\ ops = [o \in Slots |-> IdleOp]
  /\ selectedSiteId = ""
  /\ invoicesPage = <<>>
  /\ isSubmitting = FALSE
  /\ dbRows = SwitchRows
  /\ authUser = [id |-> "a1", role |-> "ADMIN"]
  /\ selectedSupervisorId = ""
  /\ locationState = null
  /\ hasFetchedData = TRUE
  /\ isLoading = FALSE
  /\ fetches = {}

NextSwitch ==
  \/ \E siteId \in SiteIds : onSelectSite(siteId)
  \/ onBack
  \/ \E req \in fetches, outcome \in Outcomes : FetchSitesDone(req, outcome)
  \/ \E req \in fetches, outcome \in Outcomes : FetchSiteExpensesDone(req, outcome)
  \/ \E req \in fetches, outcome \in Outcomes : FetchSiteAdvancesDone(req, outcome)
  \/ \E req \in fetches, outcome \in Outcomes : FetchSiteFundsReceivedDone(req, outcome)

SpecSwitch == InitSwitch /\ [][NextSwitch]_vars

\* C23: each by-site fetch called with site id s that completes without
\* backend error sets its list to exactly the rows of its table whose site_id
\* is s: fetchSiteExpenses, fetchSiteAdvances and fetchSiteFundsReceived when
\* their query is answered, fetchSiteInvoices when the site is selected.
C23_BySiteFetchExact ==
  [][/\ \A req \in fetches :
          /\ FetchSiteExpensesDone(req, "ok")
               => expenses' = transformedExpenses(rowsOfSite(dbRows.expenses, req.siteId))
          /\ FetchSiteAdvancesDone(req, "ok")
               => advances' = transformedAdvances(rowsOfSite(dbRows.advances, req.siteId))
          /\ FetchSiteFundsReceivedDone(req, "ok")
               => fundsReceived' = transformedFunds(rowsOfSite(dbRows.funds_received, req.siteId))
     /\ \A siteId \in SiteIds :
          onSelectSite(siteId)
            => invoices' = transformedInvoices(rowsOfSite(dbRows.invoices, siteId))]_vars

\* A by-site fetch is in flight.
BySiteInFlight == \E req \in fetches : req.table \in BySiteTables

\* Every record of a list belongs to the site.
AllOfSite(list, siteId) == \A i \in 1..Len(list) : list[i].siteId = siteId

\* C25: whenever a site is selected and no by-site fetch is in flight, every
\* record of expenses, advances and fundsReceived, the lists that
\* calculateSiteFinancials sums, has the selected site's id.
C25_ListsOfSelectedSite ==
  (selectedSiteId # "" /\ ~BySiteInFlight)
    => /\ AllOfSite(expenses, selectedSiteId)
       /\ AllOfSite(advances, selectedSiteId)
       /\ AllOfSite(fundsReceived, selectedSiteId)


(***************************************************************************)
(* The sites list: who sees which sites, and the creation of a site        *)
(* (checkRole.ts:79-147, 691-721)                                          *)
(***************************************************************************)
\* The users that open the page.
Users ==
  {[id |-> "a1", role |-> "ADMIN"], [id |-> "u1", role |-> "SUPERVISOR"],
   [id |-> "v1", role |-> "VIEWER"]}

\* location.state: null, a state without supervisorId, a state with one.
LocationStates == {null, <<[supervisorId |-> ""]>>, <<[supervisorId |-> "u2"]>>}

\* The supervisors of the admin's select; "" is All Supervisors.
SupervisorIds == {"", "u1", "u2"}

\* Table sites when the page is opened: s1 of supervisor u1, and s2 of
\* supervisor u2 or no row for s2.
SitesDbs ==
  {[s \in SiteIds |-> IF s = "s1" \/ withS2 THEN SwitchSites[s] ELSE NoRow] :
     withS2 \in BOOLEAN}

\* The sites queries that can be in flight.
SitesRequests == {[table |-> "sites", siteId |-> "", filter |-> f] : f \in SupervisorIds}

\* onValueChange={(value) => setSelectedSupervisorId(value || null)} of the
\* select an admin sees in the list; the effect runs for the new render.
onValueChange(value) ==
  /\ authUser.role = "ADMIN"
  /\ selectedSiteId = ""
  /\ ~isLoading
  /\ value # selectedSupervisorId
  /\ selectedSupervisorId' = effectSupervisorId(value)
  /\ fetches' = fetches \cup effect(hasFetchedData, selectedSiteId, value)
  /\ isLoading' = loadingAfter(isLoading, effect(hasFetchedData, selectedSiteId, value))
  /\ UNCHANGED <<sites, expenses, advances, fundsReceived, invoices, call, gateVars,
                 backendVars, pageVars, authUser, locationState, hasFetchedData>>

\* supervisorId={userRole === ADMIN && selectedSupervisorId ? selectedSupervisorId : user?.id}
formSupervisorId ==
  IF authUser.role = "ADMIN" /\ selectedSupervisorId # ""
    THEN selectedSupervisorId
    ELSE authUser.id

\* handleCreateSite with the site of the form, which carries the supervisorId
\* the form was given; fetchSites is the one of the render of the submit.
handleCreateSite(o, name, supervisorId) ==
  /\ authUser # NoUser
  /\ ops[o].pc = "idle"
  /\ ops' = [ops EXCEPT ![o] =
               issue([invoked("handleCreateSite", name, null, "none")
                        EXCEPT !.supervisorId = IF supervisorId # "" THEN supervisorId
                                                                     ELSE authUser.id,
                               !.refetch = fetchSites(hasFetchedData, selectedSiteId,
                                                      selectedSupervisorId)],
                     "write", "insert sites")]
  /\ UNCHANGED <<sites, expenses, advances, fundsReceived, invoices, call, gateVars,
                 sessionVars, dbSites, pageVars>>

\* The insert is answered: on an error the toast and nothing else; otherwise
\* toast.success and fetchSites(). The name of a site is unique.
CreateSiteAnswer(o, outcome, applied) ==
  /\ ops[o].handler = "handleCreateSite"
  /\ ops[o].pc = "write"
  /\ Applies(outcome, applied)
  /\ applied => ~dbSites[ops[o].siteId].present
  /\ dbSites' = IF applied
                  THEN [dbSites EXCEPT ![ops[o].siteId] =
                          [present |-> TRUE, funds |-> null, is_completed |-> FALSE,
                           completion_date |-> "",
                           supervisor_id |-> ops[o].supervisorId]]
                  ELSE dbSites
  /\ ops' = [ops EXCEPT ![o] =
               answered(finish(ops[o], toastOf(outcome)), "insert sites", outcome)]
  /\ fetches' = IF outcome = "ok" THEN fetches \cup ops[o].refetch ELSE fetches
  /\ isLoading' = IF outcome = "ok" THEN loadingAfter(isLoading, ops[o].refetch)
                                    ELSE isLoading
  /\ UNCHANGED <<sites, expenses, advances, fundsReceived, invoices, call, gateVars,
                 pageVars, authUser, selectedSupervisorId, locationState, hasFetchedData>>

\* The page after its first render and the effects of it.
InitSites ==
  /\ sites = <<>>
  /\ expenses = <<>>
  /\ advances = <<>>
  /\ fundsReceived = <<>>
  /\ invoices = <<>>
  /\ call = NoCall
  /\ GateIdle
  /\ dbSites \in SitesDbs
  /\ ops = [o \in Slots |-> IdleOp]
  /\ PageIdle
  /\ authUser \in Users
  /\ locationState \in LocationStates
  /\ selectedSupervisorId = effectSupervisorId("")
  /\ hasFetchedData = FALSE
  /\ isLoading = TRUE
  /\ fetches = effect(FALSE, "", "")

\* One site is created while the page is open.
NextSites ==
  \/ \E siteId \in SiteIds : onSelectSite(siteId)
  \/ onBack
  \/ \E value \in SupervisorIds : onValueChange(value)
  \/ \E req \in fetches, outcome \in Outcomes : FetchSitesDone(req, outcome)
  \/ \E name \in SiteIds : handleCreateSite(1, name, formSupervisorId)
  \/ \E o \in Slots, outcome \in Outcomes, applied \in BOOLEAN :
       CreateSiteAnswer(o, outcome, applied)

SpecSites == InitSites /\ [][NextSites]_vars

\* C30: for a supervisor every sites query, in flight or about to be made by
\* handleCreateSite, is filtered by the supervisor's own id and the sites list
\* holds only own sites; for a user who is not an admin the supervisorId of
\* the navigation state is neither selected nor used as the filter.
OwnFilter(requests) ==
  \A req \in requests : req.table = "sites" => req.filter = authUser.id

C30_SupervisorSeesOwnSites ==
  /\ authUser.role = "SUPERVISOR"
       => /\ OwnFilter(fetches)
          /\ \A o \in Slots : OwnFilter(ops[o].refetch)
          /\ \A i \in 1..Len(sites) : sites[i].supervisorId = authUser.id
  /\ authUser.role # "ADMIN"
       => /\ selectedSupervisorId = (IF authUser.role = "SUPERVISOR" THEN authUser.id ELSE "")
          /\ \A req \in fetches :
               req.table = "sites" => req.filter = sitesFilter(authUser, "")

\* A supervisor who came with another supervisor's id in the navigation
\* state, with a site of that supervisor in the table, has fetched the sites
\* and selected one.
C30_Witness ==
  /\ authUser.role = "SUPERVISOR"
  /\ locationState = <<[supervisorId |-> "u2"]>>
  /\ dbSites["s2"].present /\ dbSites["s2"].supervisor_id = "u2"
  /\ hasFetchedData
  /\ Len(sites) = 1
  /\ selectedSiteId = "s1"

\* ---- the creation of a site when every sites query is answered with data ----
NextCreate ==
  \/ \E siteId \in SiteIds : onSelectSite(siteId)
  \/ onBack
  \/ \E value \in SupervisorIds : onValueChange(value)
  \/ \E req \in fetches : FetchSitesDone(req, "ok")
  \/ \E name \in SiteIds : handleCreateSite(1, name, formSupervisorId)
  \/ \E o \in Slots, outcome \in Outcomes, applied \in BOOLEAN :
       CreateSiteAnswer(o, outcome, applied)

\* Every request is answered; what the user does next is up to the user.
SpecCreate ==
  /\ InitSites
  /\ [][NextCreate]_vars
  /\ \A req \in SitesRequests : WF_vars(FetchSitesDone(req, "ok"))
  /\ \A o \in Slots : WF_vars(\E outcome \in Outcomes, applied \in BOOLEAN :
                                CreateSiteAnswer(o, outcome, applied))

\* handleCreateSite in slot o created site s.
Created(o, s) ==
  /\ ops[o].handler = "handleCreateSite"
  /\ ops[o].siteId = s
  /\ ops[o].pc = "done"
  /\ ops[o].toast = "success"

Listed(s) == \E i \in 1..Len(sites) : sites[i].id = s

====
